---- MODULE Spec2Model ----
(***************************************************************************)
(* BoardGameGeek data extractor: the throttled, polling request gate of    *)
(* BGGClient (src/src/bgg_extractor/client.py) and the XML-to-record       *)
(* mappers (src/src/bgg_extractor/schemas.py).                             *)
(*                                                                         *)
(* Time is the wall clock read by time.time(), in whole ticks.  A sleep    *)
(* of d wakes at any tick at or after its deadline (asyncio.sleep never    *)
(* wakes early, and may wake late); deadlines are kept as exact fractions  *)
(* so the 1.5^n backoff is not rounded.                                    *)
(***************************************************************************)
EXTENDS Integers, Sequences, FiniteSets, TLC

\* ------------------------------------------------------------- bounds
\* min_delay ranges over 1..MaxDelay ticks (0 switches the throttle off).
MaxDelay == 2
\* max_poll_attempts ranges over -1..MaxPoll (int() accepts any integer).
MaxPoll == 3
\* The clock runs for MaxTime ticks after the process starts.
MaxTime == 3
\* Repeated children of a payload (items, ranks, players): up to MaxEntries
\* of each.
MaxEntries == 2
\* An item carries up to MaxLinks link children.
MaxLinks == 3
\* A search query has up to MaxQueryLen characters.
MaxQueryLen == 3
\* A search query names up to MaxTypes types.
MaxTypes == 2
\* The data handed to a file sink has up to MaxRows values or rows.
MaxRows == 2
\* json.dump reaches the file in up to MaxChunks buffered writes.
MaxChunks == 2

\* ---------------------------------------------------- program constants
DEFAULT_WAIT_SECONDS == 2
DEFAULT_MAX_POLL == 12

\* The logical operations (_request_xml calls) that share the client.
Ops == {1, 2}
NoOp == 0
\* Python's None.
None == "<None>"
\* The wall clock at process start: time.time() is far beyond any min_delay,
\* while _last_request_ts starts at 0.0.
Epoch == MaxDelay + DEFAULT_WAIT_SECONDS + 1

\* Python truthiness of an optional string.
Truthy(s) == s # None /\ s # ""

\* ------------------------------------------------------------ transport
BGG_USER_AGENT == "BGG-Extractor/1.0.0"
\* What httpx sends when the code sets no User-Agent of its own.
HTTPX_DEFAULT_USER_AGENT == "python-httpx"

Bearer(tok) == <<"Bearer", tok>>

\* The body the remote sends with each status; two different ready payloads.
BodiesOf(status) ==
    CASE status = 200 -> {"xml_a", "xml_b"}
      [] status = 202 -> {"Queued"}
      [] OTHER -> {"Server Error"}

Statuses == {200, 202, 500}

\* Outcomes of one physical GET: an HTTP response or a transport failure
\* (httpx raises ConnectError, TimeoutException, ...).
Responses ==
    {[kind |-> "http", status |-> s, body |-> b] : s \in Statuses, b \in {"xml_a", "xml_b", "Queued", "Server Error"}}
    \cup {[kind |-> "transport", status |-> 0, body |-> ""]}

RemoteResponses ==
    {r \in Responses : r.kind = "http" => r.body \in BodiesOf(r.status)}

Pending == [kind |-> "pending", status |-> 0, body |-> ""]


\* ------------------------------------------------------------- state
VARIABLES
    env_token,          \* os.getenv("BGG_API_TOKEN")
    entry,              \* who constructs the client: the caller, or a sync wrapper
    token_arg,          \* the token argument given to __init__
    ctor,               \* "none", "ok", or "ValueError" raised by __init__
    token,              \* self.token
    min_delay,          \* self.min_delay
    max_poll_attempts,  \* self.max_poll_attempts
    http_client,        \* self._client: NoClient or the persistent client's headers
    ctx,                \* async context manager: "never", "inside", "exited"
    last_request_ts,    \* self._last_request_ts
    lock,               \* holder of self._lock, or NoOp
    waiters,            \* FIFO queue of asyncio.Lock waiters
    now,                \* time.time()
    pc,                 \* per operation: position in _request_xml
    attempts,           \* per operation: the local poll counter
    wake,               \* per operation: the deadline of its current sleep
    client,             \* per operation: headers of the HTTP client it uses
    should_close,       \* per operation: whether it owns a temporary client
    closed,             \* per operation: whether its temporary client was closed
    result,             \* per operation: what _request_xml returned or raised
    log,                \* every physical GET, in issue order
    payload,            \* the xml_text handed to a mapper
    mapper,             \* the schema whose parse_xml was called, or "none"
    parsed,             \* what parse_xml returned or raised
    gates,              \* per client instance: _last_request_ts, _lock and its waiters
    search_query,       \* a SearchQuery object, or NoQuery
    search_string,      \* what its search_string property gave, <<>> before it is read
    cli,                \* the command line: parsed arguments, config, resolved settings
    sink,               \* one save of data to a JSON or CSV file
    store,              \* LocalStorage: the files of its base path and its writers
    calls               \* per operation: the public method called and its arguments

gateVars == <<env_token, entry, token_arg, ctor, token, min_delay, max_poll_attempts,
              http_client, ctx, last_request_ts, lock, waiters, now, pc,
              attempts, wake, client, should_close, closed, result, log>>

mapVars == <<payload, mapper, parsed>>

\* What _request_xml and the gate never touch.
twoVars == <<gates>>
queryVars == <<search_query, search_string>>
ioVars == <<cli, sink, store>>
callVars == <<calls>>
nonGateVars == <<mapVars, twoVars, queryVars, ioVars, callVars>>

\* Two BGGClient instances, and the throttle state __init__ gives each.
Instances == {"A", "B"}
NewGate == [last_request_ts |-> 0, lock |-> NoOp, waiters |-> <<>>]
\* No SearchQuery has been built.
NoQuery ==
    [via |-> "none", given |-> <<>>, query |-> <<>>, types |-> <<>>,
     has_types |-> FALSE, exact |-> FALSE]

vars == <<gateVars, nonGateVars>>

\* Python values of the command line and of the YAML config: None, a string
\* or a list of integers; Missing is a key the config does not have.
PyNone == [k |-> "None", s |-> "", l |-> <<>>]
PyStr(s) == [k |-> "str", s |-> s, l |-> <<>>]
PyList(l) == [k |-> "list", s |-> "", l |-> l]
PyInteger(n) == [k |-> "int", s |-> "", l |-> <<n>>]
Missing == [k |-> "missing", s |-> "", l |-> <<>>]

Settings == {"extractor", "things", "families", "query", "user", "out", "format"}
\* main has not started.
NoCli ==
    [stage |-> "start",
     given |-> [s \in Settings |-> FALSE],
     args |-> [s \in Settings |-> PyNone],
     cfg |-> [s \in Settings |-> Missing],
     settings |-> [s \in Settings |-> PyNone],
     dispatch |-> "none"]
\* No public method has been called.
NoCall ==
    [method |-> "none", ids |-> PyNone, username |-> PyNone, thing_id |-> PyNone,
     thing_type |-> PyNone]
\* Nothing has been saved.
NoSink ==
    [stage |-> "none", fn |-> "none", data |-> [container |-> "none", items |-> <<>>],
     outcome |-> "none", exists |-> FALSE, written |-> <<>>]
\* The callers of LocalStorage that write to one path.
Writers == {1, 2}
\* No file name is bound to inode NoInode.
NoInode == 0
IdleWriter == [pc |-> "idle", method |-> "none", fd |-> NoInode, off |-> 0]
\* LocalStorage has not been constructed.
NoStore ==
    [stage |-> "none", dest |-> NoInode, tmp |-> NoInode, inodes |-> <<>>,
     w |-> [x \in Writers |-> IdleWriter]]

NoClient == [ua |-> None, auth |-> None]
NoWake == [start |-> 0, num |-> 0, den |-> 1]
NoResult == [kind |-> "none", msg |-> "", status |-> 0, body |-> ""]

SyncWrappers ==
    {"search", "get_things", "get_collection", "get_plays", "get_family", "get_user"}
Entries == {"BGGClient"} \cup SyncWrappers

\* ------------------------------------------------------- construction
\* self.token = token or os.getenv("BGG_API_TOKEN")
ResolveToken(arg, env) == IF Truthy(arg) THEN arg ELSE env

\* if not self.token: raise ValueError(...)
TokenMissingNever(tok) == FALSE
TokenMissing(tok) == ~Truthy(tok)

\* __aenter__: httpx.AsyncClient(...); Authorization added when a token is set.
PersistentClient(tok) ==
    [ua |-> HTTPX_DEFAULT_USER_AGENT,
     auth |-> IF Truthy(tok) THEN Bearer(tok) ELSE None]

\* _get_client without a persistent client: a temporary one with both headers.
TemporaryClient(tok) ==
    [ua |-> BGG_USER_AGENT,
     auth |-> IF Truthy(tok) THEN Bearer(tok) ELSE None]

GetClient(persistent, tok) ==
    IF persistent # NoClient THEN persistent ELSE TemporaryClient(tok)

\* ----------------------------------------------------------- throttle
\* elapsed = time.time() - last; sleep(min_delay - elapsed) when elapsed < min_delay
ThrottleDelayNone(last, t, D) == 0
ThrottleDelay(last, t, D) == IF t - last < D THEN D - (t - last) ELSE 0

\* self._last_request_ts = time.time()
StampedTsStale(last, t) == last
StampedTs(last, t) == t

\* asyncio.sleep(d) started at w.start with d = w.num / w.den has elapsed.
Woken(w, t) == (t - w.start) * w.den >= w.num

RECURSIVE Pow(_, _)
Pow(b, e) == IF e = 0 THEN 1 ELSE b * Pow(b, e - 1)

\* backoff = min_delay * (1.5 ** attempts)
BackoffFromAttempts(D, n) == [num |-> D * Pow(3, n), den |-> Pow(2, n)]
\* backoff = min_delay * (1.5 ** (attempts - 1)), as the fraction num / den
Backoff(D, n) == [num |-> D * Pow(3, n - 1), den |-> Pow(2, n - 1)]

\* ------------------------------------------------ one response, decided
\* The body of the while loop after client.get: what the operation does next
\* and the value of its poll counter.
DecideOffByOne(resp, n, K) ==
    IF resp.kind = "transport" THEN [next |-> "propagate", attempts |-> n]
    ELSE IF resp.status = 200 THEN [next |-> "return", attempts |-> n]
    ELSE IF resp.status = 202
         THEN IF n + 1 > K
              THEN [next |-> "raise_queued", attempts |-> n + 1]
              ELSE [next |-> "backoff", attempts |-> n + 1]
    ELSE [next |-> "raise_status", attempts |-> n]
DecideEarlyExhaust(resp, n, K) ==
    IF resp.kind = "transport" THEN [next |-> "propagate", attempts |-> n]
    ELSE IF resp.status = 200 THEN [next |-> "return", attempts |-> n]
    ELSE IF resp.status = 202
         THEN IF n + 2 >= K
              THEN [next |-> "raise_queued", attempts |-> n + 1]
              ELSE [next |-> "backoff", attempts |-> n + 1]
    ELSE [next |-> "raise_status", attempts |-> n]
DecideRetryServerError(resp, n, K) ==
    IF resp.kind = "transport" THEN [next |-> "propagate", attempts |-> n]
    ELSE IF resp.status = 200 THEN [next |-> "return", attempts |-> n]
    ELSE IF resp.status \in {202, 500}
         THEN IF n + 1 >= K
              THEN [next |-> "raise_queued", attempts |-> n + 1]
              ELSE [next |-> "backoff", attempts |-> n + 1]
    ELSE [next |-> "raise_status", attempts |-> n]
DecideTransportAsNotReady(resp, n, K) ==
    IF resp.kind = "transport" \/ resp.status = 202
    THEN IF n + 1 >= K
         THEN [next |-> "raise_queued", attempts |-> n + 1]
         ELSE [next |-> "backoff", attempts |-> n + 1]
    ELSE IF resp.status = 200 THEN [next |-> "return", attempts |-> n]
    ELSE [next |-> "raise_status", attempts |-> n]
DecideNeverExhaust(resp, n, K) ==
    IF resp.kind = "transport" THEN [next |-> "propagate", attempts |-> n]
    ELSE IF resp.status = 200 THEN [next |-> "return", attempts |-> n]
    ELSE IF resp.status = 202 THEN [next |-> "backoff", attempts |-> n + 1]
    ELSE [next |-> "raise_status", attempts |-> n]
Decide(resp, n, K) ==
    IF resp.kind = "transport" THEN [next |-> "propagate", attempts |-> n]
    ELSE IF resp.status = 200 THEN [next |-> "return", attempts |-> n]
    ELSE IF resp.status = 202
         THEN IF n + 1 >= K
              THEN [next |-> "raise_queued", attempts |-> n + 1]
              ELSE [next |-> "backoff", attempts |-> n + 1]
    ELSE [next |-> "raise_status", attempts |-> n]

\* What the caller of _request_xml gets for a decision that ends the operation.
Outcome(next, resp) ==
    CASE next = "return" ->
            [kind |-> "ok", msg |-> "", status |-> resp.status, body |-> resp.body]
      [] next = "raise_queued" ->
            [kind |-> "RuntimeError", msg |-> "BGG queued too long", status |-> 0, body |-> ""]
      [] next = "raise_status" ->
            [kind |-> "RuntimeError", msg |-> "BGG API returned",
             status |-> resp.status, body |-> resp.body]
      [] OTHER ->
            [kind |-> "httpx.TransportError", msg |-> "", status |-> 0, body |-> ""]


\* ============================================================ mappers
\* ------------------------------------------------------ Python values
\* A field of a produced record: absent (None), a number, a string, or the
\* ValueError raised while the field was being computed.
Absent == [k |-> "absent", n |-> 0, d |-> 0, s |-> ""]
IntV(n) == [k |-> "int", n |-> n, d |-> 0, s |-> ""]
\* The float m / 10^d, with no trailing zero in its fraction.
FloatV(m, d) == [k |-> "float", n |-> m, d |-> d, s |-> ""]
StrV(s) == [k |-> "str", n |-> 0, d |-> 0, s |-> s]
Raised == [k |-> "ValueError", n |-> 0, d |-> 0, s |-> ""]

\* str | None as a record field.
OptStr(s) == IF s = None THEN Absent ELSE StrV(s)

\* The characters of the attribute values the payloads use.
Chars(s) ==
    CASE s = "" -> <<>>
      [] s = "0" -> <<"0">>
      [] s = "1" -> <<"1">>
      [] s = "2" -> <<"2">>
      [] s = "5" -> <<"5">>
      [] s = "42" -> <<"4", "2">>
      [] s = " 42 " -> <<" ", "4", "2", " ">>
      [] s = "-3" -> <<"-", "3">>
      [] s = "7.5" -> <<"7", ".", "5">>
      [] s = "8.0" -> <<"8", ".", "0">>
      [] s = "abc" -> <<"a", "b", "c">>
      [] s = "N/A" -> <<"N", "/", "A">>
      [] s = "Not Ranked" -> <<"N", "o", "t", " ", "R", "a", "n", "k", "e", "d">>

Digits == {"0", "1", "2", "3", "4", "5", "6", "7", "8", "9"}
DigitVal(c) ==
    CASE c = "0" -> 0 [] c = "1" -> 1 [] c = "2" -> 2 [] c = "3" -> 3
      [] c = "4" -> 4 [] c = "5" -> 5 [] c = "6" -> 6 [] c = "7" -> 7
      [] c = "8" -> 8 [] c = "9" -> 9

RECURSIVE StripLeft(_)
StripLeft(cs) == IF cs # <<>> /\ Head(cs) = " " THEN StripLeft(Tail(cs)) ELSE cs
RECURSIVE StripRight(_)
StripRight(cs) ==
    IF cs # <<>> /\ cs[Len(cs)] = " "
    THEN StripRight(SubSeq(cs, 1, Len(cs) - 1)) ELSE cs
Strip(cs) == StripRight(StripLeft(cs))

AllDigits(cs) == \A i \in 1..Len(cs) : cs[i] \in Digits
RECURSIVE DigitsValue(_)
DigitsValue(cs) ==
    IF cs = <<>> THEN 0
    ELSE 10 * DigitsValue(SubSeq(cs, 1, Len(cs) - 1)) + DigitVal(cs[Len(cs)])

HasSign(cs) == cs # <<>> /\ Head(cs) \in {"-", "+"}
Unsigned(cs) == IF HasSign(cs) THEN Tail(cs) ELSE cs
SignOf(cs) == IF cs # <<>> /\ Head(cs) = "-" THEN -1 ELSE 1

\* int(s): surrounding blanks, an optional sign, then one or more digits;
\* anything else raises ValueError.
PyInt(s) ==
    LET cs == Strip(Chars(s))
        ds == Unsigned(cs)
    IN  IF ds # <<>> /\ AllDigits(ds)
        THEN IntV(SignOf(cs) * DigitsValue(ds))
        ELSE Raised

RECURSIVE DropTrailingZeros(_)
DropTrailingZeros(cs) ==
    IF cs # <<>> /\ cs[Len(cs)] = "0"
    THEN DropTrailingZeros(SubSeq(cs, 1, Len(cs) - 1)) ELSE cs

\* float(s): surrounding blanks, an optional sign, digits with an optional
\* fraction; anything else in the payloads' alphabet raises ValueError.
PyFloat(s) ==
    LET cs == Strip(Chars(s))
        ds == Unsigned(cs)
        dots == {i \in 1..Len(ds) : ds[i] = "."}
    IN  IF dots = {}
        THEN IF ds # <<>> /\ AllDigits(ds)
             THEN FloatV(SignOf(cs) * DigitsValue(ds), 0)
             ELSE Raised
        ELSE LET p == CHOOSE i \in dots : TRUE
                 whole == SubSeq(ds, 1, p - 1)
                 frac == DropTrailingZeros(SubSeq(ds, p + 1, Len(ds)))
             IN  IF Cardinality(dots) = 1 /\ AllDigits(whole)
                    /\ AllDigits(SubSeq(ds, p + 1, Len(ds))) /\ Len(ds) > 1
                 THEN FloatV(SignOf(cs) * DigitsValue(whole \o frac), Len(frac))
                 ELSE Raised

\* ----------------------------------------------- xml.etree.ElementTree
Element(tag, attrib, text, children) ==
    [tag |-> tag, attrib |-> attrib, text |-> text, children |-> children]

NoAttrib == [n \in {} |-> ""]
\* What find returns when nothing matches.
NoElement == Element("<None>", NoAttrib, None, <<>>)
IsNone(e) == e.tag = "<None>"

\* attrib.get(name)
Get(attrib, name) == IF name \in DOMAIN attrib THEN attrib[name] ELSE None

\* node.findall(tag): the direct children with that tag, in document order.
FindAll(e, tag) == SelectSeq(e.children, LAMBDA c : c.tag = tag)
\* node.find(tag): the first of them, or None.
Find(e, tag) ==
    LET found == FindAll(e, tag) IN IF found = <<>> THEN NoElement ELSE found[1]
\* node.find("tag"): the attribute predicate dropped.
FindIgnoringAttr(e, tag, name, value) ==
    LET found == SelectSeq(e.children, LAMBDA c : c.tag = tag)
    IN  IF found = <<>> THEN NoElement ELSE found[1]
\* node.find("tag[@name='value']")
FindWithAttr(e, tag, name, value) ==
    LET found == SelectSeq(e.children,
                           LAMBDA c : c.tag = tag /\ Get(c.attrib, name) = value)
    IN  IF found = <<>> THEN NoElement ELSE found[1]

\* The text handed to parse_xml: not XML at all, or a document with its root.
Malformed == [wellformed |-> FALSE, root |-> NoElement]
Document(root) == [wellformed |-> TRUE, root |-> root]

\* What parse_xml gives its caller: the schema object or the exception.
NoValue == [raised |-> TRUE]
ParseError == [ok |-> FALSE, error |-> "ParseError", value |-> NoValue]
ValueError == [ok |-> FALSE, error |-> "ValueError", value |-> NoValue]
Parsed(value) == [ok |-> TRUE, error |-> "", value |-> value]
\* parse_xml has not been called.
NoParse == [ok |-> FALSE, error |-> "not called", value |-> NoValue]

\* "int(x) if x is not None else None": the empty string reaches int().
IntIfNotNone(x) == IF x # None THEN PyInt(x) ELSE Absent
\* "int(x) if x else None" on an attribute value: may raise.
IntIfTruthy(x) == IF Truthy(x) THEN PyInt(x) ELSE Absent
\* "float(x) if x else None"
FloatIfTruthy(x) == IF Truthy(x) THEN PyFloat(x) ELSE Absent

\* Whether computing one of the named fields of a record raised.
AnyRaised(rec, fields) == \E f \in fields : rec[f] = Raised
\* The schema built from the records of a list, or the ValueError one of
\* them raised.
ListOrRaise(records, fields, value) ==
    IF \E i \in 1..Len(records) : AnyRaised(records[i], fields)
    THEN ValueError
    ELSE Parsed(value)

ThingTypes ==
    {"boardgame", "boardgameexpansion", "boardgameaccessory", "videogame",
     "rpgitem", "rpgissue"}
\* cast(ThingType, t) whatever t is.
ThingTypeUnchecked(t) == OptStr(t)
\* cast(ThingType, t) if t in [...] else None
ThingTypeOf(t) == IF t \in ThingTypes THEN StrV(t) ELSE Absent

\* ------------------------------------------------- ThingSchema.parse_xml
\* get_val(tag, convert): the value attribute of the first child with that
\* tag, converted; None when missing, empty or not convertible.
GetVal(item, tag, convert) ==
    LET node == Find(item, tag)
        val == Get(node.attrib, "value")
    IN  IF ~IsNone(node) /\ Truthy(val)
        THEN IF convert = "int"
             THEN IF PyInt(val) = Raised THEN Absent ELSE PyInt(val)
             ELSE StrV(val)
        ELSE Absent

\* get_text(tag)
GetText(item, tag) ==
    LET node == Find(item, tag) IN IF IsNone(node) THEN Absent ELSE OptStr(node.text)

\* get_links without the test of the link's type.
GetLinksAnyType(item, link_type) ==
    LET kept == SelectSeq(FindAll(item, "link"),
                          LAMBDA l : Get(l.attrib, "value") # None)
    IN  [i \in 1..Len(kept) |-> Get(kept[i].attrib, "value")]
\* get_links(link_type)
GetLinks(item, link_type) ==
    LET kept == SelectSeq(FindAll(item, "link"),
                          LAMBDA l : Get(l.attrib, "type") = link_type
                                     /\ Get(l.attrib, "value") # None)
    IN  [i \in 1..Len(kept) |-> Get(kept[i].attrib, "value")]

\* statistics/ratings of an item, or None.
ThingRatings(item) ==
    LET stats == Find(item, "statistics")
    IN  IF IsNone(stats) THEN NoElement ELSE Find(stats, "ratings")

\* The rank: the value of ranks/rank[@id='1'], unless it is "Not Ranked".
ThingRank(item) ==
    LET ratings == ThingRatings(item)
        ranks == IF IsNone(ratings) THEN NoElement ELSE Find(ratings, "ranks")
        bg_rank == IF IsNone(ranks) THEN NoElement
                   ELSE FindWithAttr(ranks, "rank", "id", "1")
        rank_val == Get(bg_rank.attrib, "value")
    IN  IF ~IsNone(bg_rank) /\ Truthy(rank_val) /\ rank_val # "Not Ranked"
        THEN PyInt(rank_val)
        ELSE Absent

ThingItem(item) ==
    LET ratings == ThingRatings(item)
        usersrated == IF IsNone(ratings) THEN None ELSE Get(ratings.attrib, "usersrated")
        average == IF IsNone(ratings) THEN None ELSE Get(ratings.attrib, "average")
    IN  [id |-> IntIfTruthy(Get(item.attrib, "id")),
         type |-> ThingTypeOf(Get(item.attrib, "type")),
         name |-> GetVal(item, "name", "str"),
         description |-> GetText(item, "description"),
         yearpublished |-> GetVal(item, "yearpublished", "int"),
         minplayers |-> GetVal(item, "minplayers", "int"),
         maxplayers |-> GetVal(item, "maxplayers", "int"),
         playingtime |-> GetVal(item, "playingtime", "int"),
         minage |-> GetVal(item, "minage", "int"),
         usersrated |-> IntIfTruthy(usersrated),
         average |-> FloatIfTruthy(average),
         rank |-> ThingRank(item),
         categories |-> GetLinks(item, "boardgamecategory"),
         mechanics |-> GetLinks(item, "boardgamemechanic"),
         designers |-> GetLinks(item, "boardgamedesigner"),
         artists |-> GetLinks(item, "boardgameartist"),
         publishers |-> GetLinks(item, "boardgamepublisher")]

ThingNumericFields ==
    {"id", "yearpublished", "minplayers", "maxplayers", "playingtime", "minage",
     "usersrated", "average", "rank"}

ItemsOf(records) == [items |-> records]

\* parse_xml that takes text that is not XML for an empty reply.
ThingParseXmlLenient(xml_text) ==
    IF ~xml_text.wellformed THEN Parsed(ItemsOf(<<>>))
    ELSE LET found == FindAll(xml_text.root, "item")
             items == [i \in 1..Len(found) |-> ThingItem(found[i])]
         IN  ListOrRaise(items, ThingNumericFields, ItemsOf(items))
\* ThingSchema.parse_xml
ThingParseXml(xml_text) ==
    IF ~xml_text.wellformed THEN ParseError
    ELSE LET found == FindAll(xml_text.root, "item")
             items == [i \in 1..Len(found) |-> ThingItem(found[i])]
         IN  ListOrRaise(items, ThingNumericFields, ItemsOf(items))

\* -------------------------------------------------- UserSchema.parse_xml
\* usr = root if root.tag == "user" else root.find("user")
UserElementFindOnly(root) == Find(root, "user")
UserElement(root) == IF root.tag = "user" THEN root ELSE Find(root, "user")

\* get_val(tag_name)
UserGetVal(usr, tag_name) ==
    LET tag == Find(usr, tag_name)
    IN  IF IsNone(tag) THEN Absent ELSE OptStr(Get(tag.attrib, "value"))

\* get_list with "node = usr.find(tag_name) or usr": without the node, the
\* attributes of every child of the user.
UserGetListOrUser(usr, tag_name) ==
    LET node == IF IsNone(Find(usr, tag_name)) THEN usr ELSE Find(usr, tag_name)
    IN  [i \in 1..Len(node.children) |-> node.children[i].attrib]
\* get_list(tag_name): the attributes of the node's item, else buddy, else
\* guild children.
UserGetList(usr, tag_name) ==
    LET node == Find(usr, tag_name)
        kids == IF FindAll(node, "item") # <<>> THEN FindAll(node, "item")
                ELSE IF FindAll(node, "buddy") # <<>> THEN FindAll(node, "buddy")
                ELSE FindAll(node, "guild")
    IN  IF IsNone(node) THEN <<>> ELSE [i \in 1..Len(kids) |-> kids[i].attrib]

\* cls(): every field at its default.
EmptyUser ==
    [id |-> Absent, name |-> Absent, firstname |-> Absent, lastname |-> Absent,
     avatar |-> Absent, registered |-> Absent,
     buddies |-> <<>>, guilds |-> <<>>, hot |-> <<>>, top |-> <<>>]

UserRecord(usr) ==
    [id |-> IntIfTruthy(Get(usr.attrib, "id")),
     name |-> OptStr(Get(usr.attrib, "name")),
     firstname |-> UserGetVal(usr, "firstname"),
     lastname |-> UserGetVal(usr, "lastname"),
     avatar |-> UserGetVal(usr, "avatar"),
     registered |-> UserGetVal(usr, "yearregistered"),
     buddies |-> UserGetList(usr, "buddies"),
     guilds |-> UserGetList(usr, "guilds"),
     hot |-> UserGetList(usr, "hot"),
     top |-> UserGetList(usr, "top")]

UserParseXml(xml_text) ==
    IF ~xml_text.wellformed THEN ParseError
    ELSE LET usr == UserElement(xml_text.root)
         IN  IF IsNone(usr) THEN Parsed(EmptyUser)
             ELSE IF AnyRaised(UserRecord(usr), {"id"}) THEN ValueError
             ELSE Parsed(UserRecord(usr))

\* -------------------------------------------- CollectionSchema.parse_xml
\* The rating string: stats/rating's value attribute unless empty or "N/A".
CollectionRating(item) ==
    LET stats == Find(item, "stats")
        rating_node == IF IsNone(stats) THEN NoElement ELSE Find(stats, "rating")
        val == Get(rating_node.attrib, "value")
    IN  IF ~IsNone(rating_node) /\ Truthy(val) /\ val # "N/A" THEN val ELSE None

CollectionItem(item) ==
    LET name_node == Find(item, "name")
        status_node == Find(item, "status")
        comment_node == Find(item, "comment")
    IN  [objectid |-> IntIfTruthy(Get(item.attrib, "objectid")),
         subtype |-> OptStr(Get(item.attrib, "subtype")),
         collid |-> IntIfTruthy(Get(item.attrib, "collid")),
         name |-> IF IsNone(name_node) THEN Absent ELSE OptStr(name_node.text),
         rating |-> FloatIfTruthy(CollectionRating(item)),
         status |-> IF IsNone(status_node) THEN NoAttrib ELSE status_node.attrib,
         comment |-> IF IsNone(comment_node) THEN Absent ELSE OptStr(comment_node.text)]

CollectionParseXml(xml_text) ==
    IF ~xml_text.wellformed THEN ParseError
    ELSE LET found == FindAll(xml_text.root, "item")
             items == [i \in 1..Len(found) |-> CollectionItem(found[i])]
         IN  ListOrRaise(items, {"objectid", "collid", "rating"}, ItemsOf(items))

\* ------------------------------------------------- PlaysSchema.parse_xml
PlayItem(p) ==
    LET players_node == Find(p, "players")
        found == FindAll(players_node, "player")
        comments_elem == Find(p, "comments")
        item_elem == Find(p, "item")
    IN  [id |-> IntIfTruthy(Get(p.attrib, "id")),
         date |-> OptStr(Get(p.attrib, "date")),
         quantity |-> IntIfTruthy(Get(p.attrib, "quantity")),
         length |-> IntIfTruthy(Get(p.attrib, "length")),
         location |-> OptStr(Get(p.attrib, "location")),
         comment |-> IF IsNone(comments_elem) THEN Absent ELSE OptStr(comments_elem.text),
         item |-> IF IsNone(item_elem) THEN [present |-> FALSE, attrib |-> NoAttrib]
                  ELSE [present |-> TRUE, attrib |-> item_elem.attrib],
         players |-> IF IsNone(players_node) THEN <<>>
                     ELSE [i \in 1..Len(found) |-> found[i].attrib]]

PlaysOf(records) == [plays |-> records]

PlaysParseXml(xml_text) ==
    IF ~xml_text.wellformed THEN ParseError
    ELSE LET found == FindAll(xml_text.root, "play")
             plays == [i \in 1..Len(found) |-> PlayItem(found[i])]
         IN  ListOrRaise(plays, {"id", "quantity", "length"}, PlaysOf(plays))

\* ------------------------------------------------ SearchSchema.parse_xml
\* A ThingItem with only id, type, name and yearpublished given.
SearchItem(item) ==
    LET name == Find(item, "name")
        year == Find(item, "yearpublished")
    IN  [id |-> IntIfTruthy(Get(item.attrib, "id")),
         type |-> ThingTypeOf(Get(item.attrib, "type")),
         name |-> IF IsNone(name) THEN Absent ELSE OptStr(Get(name.attrib, "value")),
         description |-> Absent,
         yearpublished |-> IF IsNone(year) THEN Absent
                           ELSE IntIfTruthy(Get(year.attrib, "value")),
         minplayers |-> Absent, maxplayers |-> Absent, playingtime |-> Absent,
         minage |-> Absent, usersrated |-> Absent, average |-> Absent,
         rank |-> Absent,
         categories |-> <<>>, mechanics |-> <<>>, designers |-> <<>>,
         artists |-> <<>>, publishers |-> <<>>]

SearchParseXml(xml_text) ==
    IF ~xml_text.wellformed THEN ParseError
    ELSE LET found == FindAll(xml_text.root, "item")
             items == [i \in 1..Len(found) |-> SearchItem(found[i])]
         IN  ListOrRaise(items, ThingNumericFields, ItemsOf(items))

\* ------------------------------------------------ FamilySchema.parse_xml
FamilyItem(item) ==
    LET name == Find(item, "name")
        desc == Find(item, "description")
    IN  [id |-> IntIfTruthy(Get(item.attrib, "id")),
         type |-> OptStr(Get(item.attrib, "type")),
         name |-> IF IsNone(name) THEN Absent ELSE OptStr(Get(name.attrib, "value")),
         description |-> IF IsNone(desc) THEN Absent ELSE OptStr(desc.text)]

FamilyParseXml(xml_text) ==
    IF ~xml_text.wellformed THEN ParseError
    ELSE LET found == FindAll(xml_text.root, "item")
             items == [i \in 1..Len(found) |-> FamilyItem(found[i])]
         IN  ListOrRaise(items, {"id"}, ItemsOf(items))

Mappers == {"Thing", "User", "Collection", "Plays", "Search", "Family"}

\* <Schema>.parse_xml(xml_text)
ParseXml(m, xml_text) ==
    CASE m = "Thing" -> ThingParseXml(xml_text)
      [] m = "User" -> UserParseXml(xml_text)
      [] m = "Collection" -> CollectionParseXml(xml_text)
      [] m = "Plays" -> PlaysParseXml(xml_text)
      [] m = "Search" -> SearchParseXml(xml_text)
      [] m = "Family" -> FamilyParseXml(xml_text)

\* ------------------------------------------------------------ payloads
\* The attributes given as <<name, value>> pairs; a None value is an
\* attribute the element does not have.
Attrs(pairs) ==
    LET present == {p \in pairs : p[2] # None}
    IN  [n \in {p[1] : p \in present} |-> (CHOOSE p \in present : p[1] = n)[2]]

\* <tag value="v"/>, or nothing when v is None.
ValueChild(tag, v) ==
    IF v = None THEN <<>> ELSE <<Element(tag, Attrs({<<"value", v>>}), None, <<>>)>>
\* <tag>text</tag>, or nothing when text is None.
TextChild(tag, text) ==
    IF text = None THEN <<>> ELSE <<Element(tag, NoAttrib, text, <<>>)>>

SeqsUpTo(S, n) == UNION {[1..k -> S] : k \in 0..n}

\* Attribute values of numeric fields: missing, empty, a number, not a number.
IntStrings == {None, "", "42", "abc"}
FloatStrings == {None, "", "7.5", "abc"}

\* <item id= type=> of the thing, search and family endpoints.
ThingElement(id, type, name, year, usersrated, average, ranks, links, desc) ==
    LET rankEls == [i \in 1..Len(ranks) |->
                       Element("rank", Attrs({<<"id", ranks[i].id>>,
                                              <<"value", ranks[i].value>>}), None, <<>>)]
        ranksEl == IF ranks = <<>> THEN <<>>
                   ELSE <<Element("ranks", NoAttrib, None, rankEls)>>
        stats == IF usersrated = None /\ average = None /\ ranks = <<>> THEN <<>>
                 ELSE <<Element("statistics", NoAttrib, None,
                          <<Element("ratings",
                                    Attrs({<<"usersrated", usersrated>>,
                                           <<"average", average>>}),
                                    None, ranksEl)>>)>>
        linkEls == [i \in 1..Len(links) |->
                       Element("link", Attrs({<<"type", links[i].type>>,
                                              <<"value", links[i].value>>}), None, <<>>)]
    IN  Element("item", Attrs({<<"id", id>>, <<"type", type>>}), None,
                ValueChild("name", name) \o ValueChild("yearpublished", year)
                \o TextChild("description", desc) \o stats \o linkEls)

\* Values of a rank entry: a rank, the unranked token, empty, not a number.
RankValues == {"5", "Not Ranked", "", "abc"}
RankEntries == [id : {"1", "2"}, value : RankValues]
LinkEntries ==
    [type : {"boardgamecategory", "boardgamemechanic", "boardgamedesigner",
             "boardgamefamily"},
     value : {"Economic", "Dice", None}]

ThingElements ==
    {ThingElement(id, "boardgame", "Die Macher", year, ur, avg, rk, <<>>, None) :
        id \in IntStrings, year \in IntStrings, ur \in IntStrings,
        avg \in FloatStrings,
        rk \in {<<>>} \cup {<<[id |-> "1", value |-> v]>> : v \in RankValues}}
    \cup {ThingElement("42", "boardgame", "Die Macher", "42", None, None, rk, <<>>, None) :
            rk \in SeqsUpTo(RankEntries, MaxEntries)}
    \cup {ThingElement("42", "boardgame", "Die Macher", None, None, None, <<>>, ln, None) :
            ln \in SeqsUpTo(LinkEntries, MaxLinks)}
    \cup {ThingElement("42", type, name, None, None, None, <<>>, <<>>, desc) :
            type \in {None, "boardgame", "rpgitem", "boardgamefamily"},
            name \in {None, "", "Die Macher"}, desc \in {None, "A game."}}

\* <user id= name=> of the user endpoint.
UserListChild(tag, present, kids) ==
    IF ~present THEN <<>>
    ELSE <<Element(tag, NoAttrib, None,
                   [i \in 1..Len(kids) |->
                       Element(kids[i], Attrs({<<"id", "1">>, <<"name", "n">>}), None, <<>>)])>>

UserElements ==
    {Element("user", Attrs({<<"id", id>>, <<"name", name>>}), None,
             ValueChild("firstname", first) \o ValueChild("yearregistered", reg)
             \o UserListChild("buddies", hasBuddies, buddies)
             \o UserListChild("hot", hasHot, hot)) :
        id \in IntStrings, name \in {None, "testuser"}, first \in {None, "Test"},
        reg \in {None, "42"},
        hasBuddies \in BOOLEAN, buddies \in SeqsUpTo({"buddy"}, MaxEntries),
        hasHot \in BOOLEAN, hot \in SeqsUpTo({"item"}, 1)}

\* <item objectid= subtype= collid=> of the collection endpoint.
CollectionElements ==
    {Element("item",
             Attrs({<<"objectid", oid>>, <<"subtype", "boardgame">>, <<"collid", cid>>}),
             None,
             (IF nameAs = "text" THEN TextChild("name", "Die Macher")
              ELSE IF nameAs = "value" THEN ValueChild("name", "Die Macher")
              ELSE <<>>)
             \o (IF rating = None /\ statsRating = None THEN <<>>
                 ELSE <<Element("stats", Attrs({<<"rating", statsRating>>}), None,
                                ValueChild("rating", rating))>>)
             \o (IF owned = None THEN <<>>
                 ELSE <<Element("status", Attrs({<<"own", owned>>}), None, <<>>)>>)) :
        oid \in IntStrings, cid \in IntStrings,
        nameAs \in {"text", "value", "none"},
        rating \in FloatStrings \cup {"8.0", "N/A"},
        statsRating \in {None, "8.0"},
        owned \in {None, "1"}}

\* <play id= date= quantity= length=> of the plays endpoint.
PlayElements ==
    {Element("play",
             Attrs({<<"id", id>>, <<"date", "2023-01-01">>, <<"quantity", q>>,
                    <<"length", len>>}),
             None,
             (IF hasItem THEN <<Element("item", Attrs({<<"name", "Die Macher">>,
                                                       <<"objectid", "1">>}), None, <<>>)>>
              ELSE <<>>)
             \o (IF ~hasPlayers THEN <<>>
                 ELSE <<Element("players", NoAttrib, None,
                          [i \in 1..Len(players) |->
                              Element("player", Attrs({<<"name", players[i]>>}), None, <<>>)])>>)) :
        id \in IntStrings, q \in IntStrings, len \in IntStrings,
        hasItem \in BOOLEAN,
        hasPlayers \in BOOLEAN, players \in SeqsUpTo({"Ann", "Bob"}, MaxEntries)}

\* <item> with the player-count, playing-time and age children of a thing.
ThingCountElements ==
    {Element("item", Attrs({<<"id", "42">>, <<"type", "boardgame">>}), None,
             ValueChild("minplayers", lo) \o ValueChild("maxplayers", hi)
             \o ValueChild("playingtime", t) \o ValueChild("minage", age)) :
        lo \in IntStrings, hi \in IntStrings, t \in IntStrings, age \in IntStrings}

Entities ==
    ThingElements \cup ThingCountElements \cup UserElements
    \cup CollectionElements \cup PlayElements

\* The root element that wraps the entities of an endpoint's reply.
Wrapped(kids) ==
    Element(IF kids # <<>> /\ kids[1].tag = "play" THEN "plays"
            ELSE IF kids # <<>> /\ kids[1].tag = "user" THEN "users"
            ELSE "items",
            Attrs({<<"termsofuse", "link">>}), None, kids)

\* The texts handed to parse_xml: text that is not XML, a reply whose root
\* is the entity itself, and replies whose root wraps entities.
Payloads ==
    {Malformed}
    \cup {Document(e) : e \in Entities}
    \cup {Document(Wrapped(<<e>>)) : e \in Entities}
    \cup {Document(Wrapped(kids)) :
            kids \in SeqsUpTo({ThingElement(id, "boardgame", "Die Macher", None, None,
                                            None, <<>>, <<>>, None) :
                                  id \in {"42", "abc"}}, MaxEntries)}

\* --------------------------------------------------------------- Init
Init ==
    /\ env_token \in {None, "", "envtok"}
    /\ entry = "BGGClient"
    /\ token_arg = None
    /\ ctor = "none"
    /\ token = None
    /\ min_delay = 0
    /\ max_poll_attempts = 0
    /\ http_client = NoClient
    /\ ctx = "never"
    /\ last_request_ts = 0
    /\ lock = NoOp
    /\ waiters = <<>>
    /\ now = Epoch
    /\ pc = [o \in Ops |-> "idle"]
    /\ attempts = [o \in Ops |-> 0]
    /\ wake = [o \in Ops |-> NoWake]
    /\ client = [o \in Ops |-> NoClient]
    /\ should_close = [o \in Ops |-> FALSE]
    /\ closed = [o \in Ops |-> FALSE]
    /\ result = [o \in Ops |-> NoResult]
    /\ log = <<>>
    /\ payload = Malformed
    /\ mapper = "none"
    /\ parsed = NoParse
    /\ gates = [i \in Instances |-> NewGate]
    /\ search_query = NoQuery
    /\ search_string = <<>>
    /\ cli = NoCli
    /\ sink = NoSink
    /\ store = NoStore
    /\ calls = [o \in Ops |-> NoCall]

\* ------------------------------------------------------------ actions
\* BGGClient.__init__: the state it leaves, or the ValueError it raises.
Init__(who, arg, D, K) ==
    /\ ctor = "none"
    /\ entry' = who
    /\ token_arg' = arg
    /\ LET tok == ResolveToken(arg, env_token) IN
         IF TokenMissing(tok)
         THEN /\ ctor' = "ValueError"
              /\ UNCHANGED <<token, min_delay, max_poll_attempts>>
         ELSE /\ ctor' = "ok"
              /\ token' = tok
              /\ min_delay' = D
              /\ max_poll_attempts' = K

\* The caller constructs BGGClient(min_delay=D, max_poll_attempts=K, token=arg).
Construct(arg, D, K) ==
    /\ UNCHANGED nonGateVars
    /\ Init__("BGGClient", arg, D, K)
    /\ UNCHANGED <<env_token, http_client, ctx, last_request_ts, lock, waiters,
                   now, pc, attempts, wake, client, should_close, closed,
                   result, log>>

\* A synchronous wrapper: async with BGGClient() as client, all defaults and
\* no token argument; __aenter__ follows __init__ without a suspension point.
SyncWrapper(w) ==
    /\ UNCHANGED nonGateVars
    /\ Init__(w, None, DEFAULT_WAIT_SECONDS, DEFAULT_MAX_POLL)
    /\ IF ctor' = "ok"
       THEN /\ http_client' = PersistentClient(token')
            /\ ctx' = "inside"
       ELSE UNCHANGED <<http_client, ctx>>
    /\ UNCHANGED <<env_token, last_request_ts, lock, waiters, now, pc,
                   attempts, wake, client, should_close, closed, result, log>>

\* BGGClient.__aenter__, entered before the operations of the with-block start.
AEnter ==
    /\ UNCHANGED nonGateVars
    /\ ctor = "ok"
    /\ entry = "BGGClient"
    /\ ctx = "never"
    /\ \A o \in Ops : pc[o] = "idle"
    /\ http_client' = PersistentClient(token)
    /\ ctx' = "inside"
    /\ UNCHANGED <<env_token, entry, token_arg, ctor, token, min_delay, max_poll_attempts,
                   last_request_ts, lock, waiters, now, pc, attempts, wake,
                   client, should_close, closed, result, log>>

\* BGGClient.__aexit__, once the operations of the with-block have ended.
AExit ==
    /\ UNCHANGED nonGateVars
    /\ ctx = "inside"
    /\ \A o \in Ops : pc[o] \in {"idle", "done"} \/ should_close[o]
    /\ http_client' = NoClient
    /\ ctx' = "exited"
    /\ UNCHANGED <<env_token, entry, token_arg, ctor, token, min_delay, max_poll_attempts,
                   last_request_ts, lock, waiters, now, pc, attempts, wake,
                   client, should_close, closed, result, log>>

\* _request_xml up to the loop: attempts = 0, the client and should_close.
\* A synchronous wrapper runs its single operation inside the with-block.
Call(o) ==
    /\ UNCHANGED nonGateVars
    /\ ctor = "ok"
    /\ pc[o] = "idle"
    /\ entry \in SyncWrappers => ctx = "inside" /\ o = 1
    /\ attempts' = [attempts EXCEPT ![o] = 0]
    /\ client' = [client EXCEPT ![o] = GetClient(http_client, token)]
    /\ should_close' = [should_close EXCEPT ![o] = (http_client = NoClient)]
    /\ pc' = [pc EXCEPT ![o] = "throttle"]
    /\ UNCHANGED <<env_token, entry, token_arg, ctor, token, min_delay, max_poll_attempts,
                   http_client, ctx, last_request_ts, lock, waiters, now, wake,
                   closed, result, log>>

\* "async with self._lock" that keeps the lock when the block is left.
ReleasedNever(holder, o) == holder
\* __aexit__ of "async with self._lock": the holder releases on any exit.
ReleasedBy(holder, o) == IF holder = o THEN NoOp ELSE holder

\* The end of _throttle and the client.get that follows it without a
\* suspension point: stamp the clock, release the lock, send the GET.
Issue(o) ==
    /\ last_request_ts' = StampedTs(last_request_ts, now)
    /\ lock' = ReleasedBy(lock, o)
    /\ pc' = [pc EXCEPT ![o] = "in_flight"]
    /\ log' = Append(log, [op |-> o, t |-> now, ua |-> client[o].ua,
                           auth |-> client[o].auth, resp |-> Pending])
    /\ UNCHANGED wake

\* _throttle with the lock just taken: sleep under the lock, or go on.
ThrottleLocked(o) ==
    LET d == ThrottleDelay(last_request_ts, now, min_delay) IN
    IF d > 0
    THEN /\ lock' = o
         /\ pc' = [pc EXCEPT ![o] = "throttle_sleep"]
         /\ wake' = [wake EXCEPT ![o] = [start |-> now, num |-> d, den |-> 1]]
         /\ UNCHANGED <<last_request_ts, log>>
    ELSE Issue(o)

\* await self._throttle(): asyncio.Lock.acquire takes a free lock with no
\* waiters at once, and queues otherwise.
ThrottleEnter(o) ==
    /\ UNCHANGED nonGateVars
    /\ pc[o] = "throttle"
    /\ IF lock = NoOp /\ waiters = <<>>
       THEN ThrottleLocked(o) /\ UNCHANGED waiters
       ELSE /\ waiters' = Append(waiters, o)
            /\ pc' = [pc EXCEPT ![o] = "lock_wait"]
            /\ UNCHANGED <<last_request_ts, lock, wake, log>>
    /\ UNCHANGED <<env_token, entry, token_arg, ctor, token, min_delay, max_poll_attempts,
                   http_client, ctx, now, attempts, client, should_close,
                   closed, result>>

\* asyncio.Lock.release wakes no waiter.
WakeNobody(ws) == NoOp
\* asyncio.Lock._wake_up_first: the waiter at the head of the queue.
FirstWaiter(ws) == Head(ws)

\* asyncio.Lock.release wakes the first waiter, which then holds the lock.
LockGranted(o) ==
    /\ UNCHANGED nonGateVars
    /\ pc[o] = "lock_wait"
    /\ lock = NoOp
    /\ waiters # <<>>
    /\ FirstWaiter(waiters) = o
    /\ waiters' = Tail(waiters)
    /\ ThrottleLocked(o)
    /\ UNCHANGED <<env_token, entry, token_arg, ctor, token, min_delay, max_poll_attempts,
                   http_client, ctx, now, attempts, client, should_close,
                   closed, result>>

\* The sleep inside _throttle ends.
ThrottleWake(o) ==
    /\ UNCHANGED nonGateVars
    /\ pc[o] = "throttle_sleep"
    /\ Woken(wake[o], now)
    /\ Issue(o)
    /\ UNCHANGED <<env_token, entry, token_arg, ctor, token, min_delay, max_poll_attempts,
                   http_client, ctx, waiters, now, attempts, client,
                   should_close, closed, result>>

\* The index in log of the operation's GET that is still unanswered.
PendingIndex(o) ==
    CHOOSE i \in 1..Len(log) : log[i].op = o /\ log[i].resp = Pending

\* A close that is reached only on the return path.
CloseOnReturnOnly(owns, next) == owns /\ next = "return"
\* finally: if should_close: await client.aclose() -- on every way out.
Finally(owns, next) == owns

\* client.get completes with a response or raises; the loop body decides.
\* The finally clause closes a temporary client on every exit.
RequestXmlStep(o, r) ==
    /\ pc[o] = "in_flight"
    /\ log' = [log EXCEPT ![PendingIndex(o)].resp = r]
    /\ LET d == Decide(r, attempts[o], max_poll_attempts) IN
         /\ attempts' = [attempts EXCEPT ![o] = d.attempts]
         /\ IF d.next = "backoff"
            THEN /\ pc' = [pc EXCEPT ![o] = "backoff"]
                 /\ wake' = [wake EXCEPT ![o] =
                               [start |-> now,
                                num |-> Backoff(min_delay, d.attempts).num,
                                den |-> Backoff(min_delay, d.attempts).den]]
                 /\ UNCHANGED <<result, closed>>
            ELSE /\ pc' = [pc EXCEPT ![o] = "done"]
                 /\ result' = [result EXCEPT ![o] = Outcome(d.next, r)]
                 /\ closed' = [closed EXCEPT ![o] = Finally(should_close[o], d.next)]
                 /\ UNCHANGED wake
    /\ UNCHANGED <<env_token, entry, token_arg, ctor, token, min_delay, max_poll_attempts,
                   http_client, ctx, last_request_ts, lock, waiters, now,
                   client, should_close>>

\* _request_xml seen on its own: what its caller does with the body is left
\* out.
Respond(o, r) ==
    /\ RequestXmlStep(o, r)
    /\ UNCHANGED nonGateVars

\* The backoff sleep ends; the loop continues with _throttle.
BackoffWake(o) ==
    /\ UNCHANGED nonGateVars
    /\ pc[o] = "backoff"
    /\ Woken(wake[o], now)
    /\ pc' = [pc EXCEPT ![o] = "throttle"]
    /\ UNCHANGED <<env_token, entry, token_arg, ctor, token, min_delay, max_poll_attempts,
                   http_client, ctx, last_request_ts, lock, waiters, now,
                   attempts, wake, client, should_close, closed, result, log>>

\* The wall clock advances.
Tick ==
    /\ UNCHANGED nonGateVars
    /\ now < Epoch + MaxTime
    /\ now' = now + 1
    /\ UNCHANGED <<env_token, entry, token_arg, ctor, token, min_delay, max_poll_attempts,
                   http_client, ctx, last_request_ts, lock, waiters, pc,
                   attempts, wake, client, should_close, closed, result, log>>

Next ==
    \/ \E arg \in {None, "", "argtok"}, D \in 1..MaxDelay, K \in -1..MaxPoll :
          Construct(arg, D, K)
    \/ \E w \in SyncWrappers : SyncWrapper(w)
    \/ AEnter
    \/ AExit
    \/ \E o \in Ops : Call(o)
    \/ \E o \in Ops : ThrottleEnter(o)
    \/ \E o \in Ops : LockGranted(o)
    \/ \E o \in Ops : ThrottleWake(o)
    \/ \E o \in Ops, r \in RemoteResponses : Respond(o, r)
    \/ \E o \in Ops : BackoffWake(o)
    \/ Tick

Spec == Init /\ [][Next]_vars

\* ------------------------------------- one operation, from call to record
\* A 200 body that is not XML.
NOT_XML == "<not xml"

\* What the remote may answer to the GET of an operation whose body is then
\* parsed.
OperationResponses ==
    RemoteResponses \cup {[kind |-> "http", status |-> 200, body |-> NOT_XML]}

\* The text of a 200 body as ET.fromstring sees it.
BodyText(body) ==
    CASE body = "xml_a" ->
            Document(Wrapped(<<ThingElement("42", "boardgame", "Die Macher", "42",
                                            None, None, <<>>, <<>>, None)>>))
      [] body = "xml_b" -> Document(Wrapped(<<>>))
      [] OTHER -> Malformed

\* The operation that goes with each schema.
OperationOf(m) ==
    CASE m = "Thing" -> "get_thing"
      [] m = "User" -> "get_user"
      [] m = "Collection" -> "get_collection"
      [] m = "Plays" -> "get_plays"
      [] m = "Search" -> "search"
      [] m = "Family" -> "get_family"

\* The operation under study.
TheOp == 1

\* xml = await self._request_xml(...); return <Schema>.parse_xml(xml): the
\* response arrives, _request_xml decides, and on a return the body is parsed
\* at once (no suspension point lies between the two).
Operation(m, r) ==
    /\ RequestXmlStep(TheOp, r)
    /\ IF Decide(r, attempts[TheOp], max_poll_attempts).next = "return"
       THEN /\ payload' = BodyText(r.body)
            /\ mapper' = m
            /\ parsed' = ParseXml(m, BodyText(r.body))
       ELSE UNCHANGED mapVars
    /\ UNCHANGED <<twoVars, queryVars, ioVars, callVars>>

\* The wall clock advances: freely for MaxTime ticks, and after that for as
\* long as a sleep is waiting for it.
TickOperation ==
    /\ \/ now < Epoch + MaxTime
       \/ pc[TheOp] = "backoff" /\ ~Woken(wake[TheOp], now)
    /\ now' = now + 1
    /\ UNCHANGED <<env_token, entry, token_arg, ctor, token, min_delay, max_poll_attempts,
                   http_client, ctx, last_request_ts, lock, waiters, pc,
                   attempts, wake, client, should_close, closed, result, log>>
    /\ UNCHANGED nonGateVars

\* One operation alone never sleeps in _throttle (its own backoff is never
\* shorter than min_delay) and never waits for the lock.
NextOperation ==
    \/ \E arg \in {None, "", "argtok"}, D \in 1..MaxDelay, K \in -1..MaxPoll :
          Construct(arg, D, K)
    \/ \E w \in SyncWrappers : SyncWrapper(w)
    \/ AEnter
    \/ AExit
    \/ Call(TheOp)
    \/ ThrottleEnter(TheOp)
    \/ \E m \in Mappers, r \in OperationResponses : Operation(m, r)
    \/ BackoffWake(TheOp)
    \/ TickOperation

SpecOperation == Init /\ [][NextOperation]_vars

\* The event loop runs every coroutine that can run, the clock advances, and
\* client.get ends: with a response, or with the exception httpx raises when
\* self.timeout has passed.
FairSpecOperation ==
    /\ SpecOperation
    /\ WF_vars(ThrottleEnter(TheOp))
    /\ WF_vars(BackoffWake(TheOp))
    /\ WF_vars(TickOperation)
    /\ WF_vars(\E m \in Mappers, r \in OperationResponses : Operation(m, r))

\* ------------------------------------------------ two client instances
\* Two BGGClient objects built with the same arguments, each used by one
\* caller that makes one call after the other: operation 1 on instance A,
\* operation 2 on instance B.  self._last_request_ts and self._lock are
\* attributes of the instance the operation was called on.
InstanceShared(o) == "A"
\* The GETs each instance sends here: a first one and a second one.
Gets == {1, 2}
InstanceOf(o) == IF o = 1 THEN "A" ELSE "B"

\* The end of _throttle on an instance and the client.get that follows it.
GateIssue(o) ==
    /\ gates' = [gates EXCEPT ![InstanceOf(o)].last_request_ts = StampedTs(@, now),
                              ![InstanceOf(o)].lock = NoOp]
    /\ pc' = [pc EXCEPT ![o] = "in_flight"]
    /\ log' = Append(log, [op |-> o, t |-> now, ua |-> client[o].ua,
                           auth |-> client[o].auth, resp |-> Pending])
    /\ UNCHANGED wake

\* await self._throttle() on the operation's own instance.
GateThrottleEnter(o) ==
    /\ pc[o] = "throttle"
    /\ LET g == gates[InstanceOf(o)]
           d == ThrottleDelay(g.last_request_ts, now, min_delay)
       IN  IF g.lock = NoOp /\ g.waiters = <<>>
           THEN IF d > 0
                THEN /\ gates' = [gates EXCEPT ![InstanceOf(o)].lock = o]
                     /\ pc' = [pc EXCEPT ![o] = "throttle_sleep"]
                     /\ wake' = [wake EXCEPT ![o] = [start |-> now, num |-> d, den |-> 1]]
                     /\ UNCHANGED log
                ELSE GateIssue(o)
           ELSE /\ gates' = [gates EXCEPT ![InstanceOf(o)].waiters = Append(@, o)]
                /\ pc' = [pc EXCEPT ![o] = "lock_wait"]
                /\ UNCHANGED <<wake, log>>
    /\ UNCHANGED <<env_token, entry, token_arg, ctor, token, min_delay, max_poll_attempts,
                   http_client, ctx, last_request_ts, lock, waiters, now, attempts,
                   client, should_close, closed, result>>
    /\ UNCHANGED <<mapVars, queryVars, ioVars, callVars>>

\* The sleep inside _throttle ends.
GateThrottleWake(o) ==
    /\ pc[o] = "throttle_sleep"
    /\ Woken(wake[o], now)
    /\ GateIssue(o)
    /\ UNCHANGED <<env_token, entry, token_arg, ctor, token, min_delay, max_poll_attempts,
                   http_client, ctx, last_request_ts, lock, waiters, now, attempts,
                   client, should_close, closed, result>>
    /\ UNCHANGED <<mapVars, queryVars, ioVars, callVars>>

\* The caller of an instance makes its next call once the last one has ended.
CallAgain(o) ==
    /\ pc[o] = "done"
    /\ Cardinality({i \in 1..Len(log) : log[i].op = o}) < Cardinality(Gets)
    /\ attempts' = [attempts EXCEPT ![o] = 0]
    /\ client' = [client EXCEPT ![o] = GetClient(http_client, token)]
    /\ should_close' = [should_close EXCEPT ![o] = (http_client = NoClient)]
    /\ closed' = [closed EXCEPT ![o] = FALSE]
    /\ result' = [result EXCEPT ![o] = NoResult]
    /\ pc' = [pc EXCEPT ![o] = "throttle"]
    /\ UNCHANGED <<env_token, entry, token_arg, ctor, token, min_delay, max_poll_attempts,
                   http_client, ctx, last_request_ts, lock, waiters, now, wake, log>>
    /\ UNCHANGED nonGateVars

\* client.get on either instance ends, while that instance may send more.
RespondTwo(o, r) ==
    /\ Cardinality({i \in 1..Len(log) : log[i].op = o}) < Cardinality(Gets)
       \/ Decide(r, attempts[o], max_poll_attempts).next # "backoff"
    /\ Respond(o, r)

\* What the remote answers here: ready, queued, or no answer at all.
ResponsesTwo ==
    {r \in RemoteResponses : r.kind = "transport" \/ r.body \in {"xml_a", "Queued"}}

\* An instance with one caller has no waiter to hand its lock to, so
\* asyncio.Lock never queues here.
NextTwo ==
    \/ \E D \in 1..MaxDelay, K \in 1..MaxPoll : Construct("argtok", D, K)
    \/ \E o \in Ops : Call(o)
    \/ \E o \in Ops : CallAgain(o)
    \/ \E o \in Ops : GateThrottleEnter(o)
    \/ \E o \in Ops : GateThrottleWake(o)
    \/ \E o \in Ops, r \in ResponsesTwo : RespondTwo(o, r)
    \/ \E o \in Ops : BackoffWake(o)
    \/ Tick

\* No token in the environment: both instances get theirs as an argument.
InitTwo == Init /\ env_token = None

SpecTwo == InitTwo /\ [][NextTwo]_vars

\* ------------------------------------------- cancellation in _throttle
Cancelled == [kind |-> "CancelledError", msg |-> "", status |-> 0, body |-> ""]

\* The task of operation o is cancelled while it is suspended in _throttle:
\* in asyncio.sleep under the lock, or in Lock.acquire.  CancelledError
\* leaves the "async with", skips the timestamp assignment, and passes the
\* finally clause of _request_xml.
CancelInThrottle(o) ==
    /\ pc[o] \in {"throttle_sleep", "lock_wait"}
    /\ lock' = IF pc[o] = "throttle_sleep" THEN ReleasedBy(lock, o) ELSE lock
    /\ waiters' = SelectSeq(waiters, LAMBDA x : x # o)
    /\ pc' = [pc EXCEPT ![o] = "done"]
    /\ result' = [result EXCEPT ![o] = Cancelled]
    /\ closed' = [closed EXCEPT ![o] = should_close[o]]
    /\ UNCHANGED <<env_token, entry, token_arg, ctor, token, min_delay, max_poll_attempts,
                   http_client, ctx, last_request_ts, now, attempts, wake, client,
                   should_close, log>>
    /\ UNCHANGED nonGateVars

\* The callers of one client, any of which may be cancelled in _throttle.
NextCancel ==
    \/ \E D \in 1..MaxDelay, K \in 1..MaxPoll : Construct("argtok", D, K)
    \/ \E o \in Ops : Call(o)
    \/ \E o \in Ops : ThrottleEnter(o)
    \/ \E o \in Ops : LockGranted(o)
    \/ \E o \in Ops : ThrottleWake(o)
    \/ \E o \in Ops : CancelInThrottle(o)
    \/ \E o \in Ops, r \in ResponsesTwo : Respond(o, r)
    \/ \E o \in Ops : BackoffWake(o)
    \/ Tick

SpecCancel == InitTwo /\ [][NextCancel]_vars

\* ------------------------------------------- callers that run to the end
\* The wall clock advances: freely for MaxTime ticks, and after that for as
\* long as some sleep is waiting for it.
TickWaiting ==
    /\ \/ now < Epoch + MaxTime
       \/ \E o \in Ops : pc[o] \in {"backoff", "throttle_sleep"} /\ ~Woken(wake[o], now)
    /\ now' = now + 1
    /\ UNCHANGED <<env_token, entry, token_arg, ctor, token, min_delay, max_poll_attempts,
                   http_client, ctx, last_request_ts, lock, waiters, pc,
                   attempts, wake, client, should_close, closed, result, log>>
    /\ UNCHANGED nonGateVars

\* max_poll_attempts here: a 202 ends the operation, or is retried once.
Polls == {1, 2}

NextLive ==
    \/ \E D \in 1..MaxDelay, K \in Polls : Construct("argtok", D, K)
    \/ \E o \in Ops : Call(o)
    \/ \E o \in Ops : ThrottleEnter(o)
    \/ \E o \in Ops : LockGranted(o)
    \/ \E o \in Ops : ThrottleWake(o)
    \/ \E o \in Ops, r \in ResponsesTwo : Respond(o, r)
    \/ \E o \in Ops : BackoffWake(o)
    \/ TickWaiting

SpecLive == InitTwo /\ [][NextLive]_vars

\* The event loop runs every coroutine that can run, the clock advances, and
\* the remote answers every attempt.
FairSpecLive ==
    /\ SpecLive
    /\ \A o \in Ops : WF_vars(ThrottleEnter(o))
    /\ \A o \in Ops : WF_vars(LockGranted(o))
    /\ \A o \in Ops : WF_vars(ThrottleWake(o))
    /\ \A o \in Ops : WF_vars(BackoffWake(o))
    /\ \A o \in Ops : WF_vars(\E r \in ResponsesTwo : Respond(o, r))
    /\ WF_vars(TickWaiting)

\* ---------------------------------------------------------- SearchQuery
\* Strings are sequences of characters; the fixed pieces of the query string
\* ("search?", "query=", "type=", "exact=1", a type name) are one element
\* each.
\* re.sub(" ", "+", query) with count=1: only the first space.
ReSubFirst(pattern, repl, cs) ==
    IF \E i \in 1..Len(cs) : cs[i] = pattern
    THEN LET first == CHOOSE i \in 1..Len(cs) :
                         cs[i] = pattern /\ \A j \in 1..(i - 1) : cs[j] # pattern
         IN  [i \in 1..Len(cs) |-> IF i = first THEN repl ELSE cs[i]]
    ELSE cs
\* re.sub(pattern, repl, query) for a one-character pattern.
ReSub(pattern, repl, cs) ==
    [i \in 1..Len(cs) |-> IF cs[i] = pattern THEN repl ELSE cs[i]]

\* sep.join(parts), each part a string.
RECURSIVE Join(_, _)
Join(sep, parts) ==
    IF parts = <<>> THEN <<>>
    ELSE IF Len(parts) = 1 THEN parts[1]
    ELSE parts[1] \o <<sep>> \o Join(sep, Tail(parts))

\* cls(query=..., types=..., exact=...): exact is True unless given.
SearchQueryOf(via, given, query, has_types, types, exact_arg) ==
    [via |-> via, given |-> given, query |-> query,
     types |-> IF has_types THEN types ELSE <<>>,
     has_types |-> has_types,
     exact |-> IF exact_arg = "omitted" THEN TRUE ELSE exact_arg = "True"]

\* The search_string property.
SearchStringOf(sq) ==
    LET params == <<(<<"query=">> \o sq.query)>>
                  \o (IF sq.has_types /\ sq.types # <<>>
                      THEN <<(<<"type=">> \o Join(",", [i \in 1..Len(sq.types) |-> <<sq.types[i]>>]))>>
                      ELSE <<>>)
                  \o (IF sq.exact THEN << <<"exact=1">> >> ELSE <<>>)
    IN  <<"search?">> \o Join("&", params)

\* The queries and the type lists given to SearchQuery.
Queries == SeqsUpTo({"a", "b", " "}, MaxQueryLen)
TypeLists == SeqsUpTo({"boardgame", "rpgitem"}, MaxTypes)

\* SearchQuery(query=q, types=..., exact=...)
SearchQuery(q, has_types, types, exact_arg) ==
    /\ search_query = NoQuery
    /\ search_query' = SearchQueryOf("cls", q, q, has_types, types, exact_arg)
    /\ UNCHANGED <<gateVars, mapVars, twoVars, ioVars, callVars, search_string>>

\* SearchQuery.from_query(query)
from_query(q) ==
    /\ search_query = NoQuery
    /\ search_query' = SearchQueryOf("from_query", q, ReSub(" ", "+", q), FALSE, <<>>, "omitted")
    /\ UNCHANGED <<gateVars, mapVars, twoVars, ioVars, callVars, search_string>>

\* SearchQuery.from_types(query, types)
from_types(q, types) ==
    /\ search_query = NoQuery
    /\ search_query' = SearchQueryOf("from_types", q, q, TRUE, types, "omitted")
    /\ UNCHANGED <<gateVars, mapVars, twoVars, ioVars, callVars, search_string>>

\* Reading the search_string property of the object.
ReadSearchString ==
    /\ search_query # NoQuery
    /\ search_string = <<>>
    /\ search_string' = SearchStringOf(search_query)
    /\ UNCHANGED <<gateVars, mapVars, twoVars, ioVars, callVars, search_query>>

NextQuery ==
    \/ \E q \in Queries, has_types \in BOOLEAN, types \in TypeLists,
          exact_arg \in {"omitted", "True", "False"} :
          SearchQuery(q, has_types, types, exact_arg)
    \/ \E q \in Queries : from_query(q)
    \/ \E q \in Queries, types \in TypeLists : from_types(q, types)
    \/ ReadSearchString

SpecQuery == Init /\ [][NextQuery]_vars

\* ------------------------------------------------------------------ cli
\* Python truthiness of a value, and the value of "a or b".
IsTruthy(v) ==
    CASE v.k = "str" -> v.s # ""
      [] v.k = "list" -> v.l # <<>>
      [] v.k = "int" -> v.l # <<0>>
      [] OTHER -> FALSE
PyOr(a, b) == IF IsTruthy(a) THEN a ELSE b

\* The attribute argparse leaves for a flag that is not on the command line.
ArgDefault(s) ==
    CASE s = "out" -> PyStr("output.json")
      [] s = "format" -> PyStr("json")
      [] OTHER -> PyNone

\* cfg.get(key) and cfg.get(key, default) of run_extraction.
CfgGet(cfg, s) ==
    IF cfg[s] # Missing THEN cfg[s]
    ELSE CASE s = "out" -> PyStr("output.json")
           [] s = "format" -> PyStr("json")
           [] OTHER -> PyNone

\* What a flag can carry on the command line (nargs="*" admits no id at all).
ArgValues(s) ==
    CASE s = "extractor" -> {PyStr("things")}
      [] s = "things" -> {PyList(<<13>>), PyList(<<>>)}
      [] s = "families" -> {PyList(<<5>>)}
      [] s = "query" -> {PyStr("catan"), PyStr("")}
      [] s = "user" -> {PyStr("alice")}
      [] s = "out" -> {PyStr("cli.json")}
      [] OTHER -> {PyStr("csv"), PyStr("json")}

\* What the YAML file gives for a key it has.
CfgValue(s) ==
    CASE s = "extractor" -> PyStr("search")
      [] s = "things" -> PyList(<<7>>)
      [] s = "families" -> PyList(<<9>>)
      [] s = "query" -> PyStr("azul")
      [] s = "user" -> PyStr("bob")
      [] s = "out" -> PyStr("cfg.json")
      [] OTHER -> PyStr("csv")

ArgChoices(s) == {Missing} \cup ArgValues(s)
CfgChoices(s) == {Missing, CfgValue(s)}

\* The branch of run_extraction that runs, or the exit with status 1.
DispatchOf(st) ==
    LET needs ==
          CASE st["extractor"] = PyStr("things") -> "things"
            [] st["extractor"] = PyStr("family") -> "families"
            [] st["extractor"] = PyStr("search") -> "query"
            [] st["extractor"] \in {PyStr("collection"), PyStr("user"), PyStr("plays")} -> "user"
            [] OTHER -> "none"
    IN  IF needs = "none" THEN "exit 1"
        ELSE IF ~IsTruthy(st[needs]) THEN "exit 1"
        ELSE st["extractor"].s

\* main: parser.parse_args(argv); Missing marks a flag that is not in argv.
ParseArgs(argv) ==
    /\ cli.stage = "start"
    /\ cli' = [cli EXCEPT !.stage = "parsed",
                          !.given = [s \in Settings |-> argv[s] # Missing],
                          !.args = [s \in Settings |->
                                      IF argv[s] # Missing THEN argv[s] ELSE ArgDefault(s)]]
    /\ UNCHANGED <<gateVars, mapVars, twoVars, queryVars, callVars, sink, store>>

\* main: cfg = {} or load_config(args.config)
LoadConfig(yaml) ==
    /\ cli.stage = "parsed"
    /\ cli' = [cli EXCEPT !.stage = "loaded", !.cfg = yaml]
    /\ UNCHANGED <<gateVars, mapVars, twoVars, queryVars, callVars, sink, store>>

\* run_extraction: the seven settings, then the extractor branch.
RunExtraction ==
    /\ cli.stage = "loaded"
    /\ LET st == [s \in Settings |-> PyOr(cli.args[s], CfgGet(cli.cfg, s))] IN
         cli' = [cli EXCEPT !.stage = "resolved", !.settings = st,
                            !.dispatch = DispatchOf(st)]
    /\ UNCHANGED <<gateVars, mapVars, twoVars, queryVars, callVars, sink, store>>

NextCli ==
    \/ \E e \in ArgChoices("extractor"), t \in ArgChoices("things"),
          f \in ArgChoices("families"), q \in ArgChoices("query"),
          u \in ArgChoices("user"), o \in ArgChoices("out"), fm \in ArgChoices("format") :
          ParseArgs([s \in Settings |->
                       CASE s = "extractor" -> e [] s = "things" -> t
                         [] s = "families" -> f [] s = "query" -> q
                         [] s = "user" -> u [] s = "out" -> o [] OTHER -> fm])
    \/ \E keys \in SUBSET Settings :
          LoadConfig([s \in Settings |-> IF s \in keys THEN CfgValue(s) ELSE Missing])
    \/ RunExtraction

InitCli == Init /\ env_token = None

SpecCli == InitCli /\ [][NextCli]_vars

\* ---------------------------------------------------------- file sinks
\* The values inside the data given to a JSON sink: a JSON-native number, a
\* record (pydantic BaseModel), and a value that is neither (a datetime).
NativeValue == [kind |-> "int", text |-> "7"]
RecordValue == [kind |-> "record", text |-> "ThingItem(id=1)"]
OtherValue == [kind |-> "datetime", text |-> "2024-01-01 00:00:00"]
JsonValues == {NativeValue, RecordValue, OtherValue}

\* A single record, a list or a mapping (keys k1, k2, ... in order).
JsonData ==
    {[container |-> "record", items |-> <<RecordValue>>]}
    \cup {[container |-> c, items |-> vs] :
             c \in {"list", "dict"}, vs \in SeqsUpTo(JsonValues, MaxRows)}

TypeError == [form |-> "TypeError", text |-> ""]
\* default_serializer of save_to_json: model_dump() for a record, else TypeError.
default_serializer(v) ==
    IF v.kind = "record" THEN [form |-> "object", text |-> v.text] ELSE TypeError
\* default=str of the storage backends.
default_str(v) == [form |-> "string", text |-> v.text]

\* json.dump of one value: natively, or through the default hook.
JsonEncode(v, hook) ==
    IF v.kind = "int" THEN [form |-> "number", text |-> v.text]
    ELSE IF hook = "default_serializer" THEN default_serializer(v)
    ELSE default_str(v)

\* json.dump(obj, f, default=hook): the encoded values, or the error.
JsonDump(d, hook) ==
    LET enc == [i \in 1..Len(d.items) |-> JsonEncode(d.items[i], hook)] IN
    IF \E i \in 1..Len(enc) : enc[i] = TypeError
    THEN [outcome |-> "TypeError", written |-> <<>>]
    ELSE [outcome |-> "ok", written |-> enc]

\* The three branches of save_to_json.
SaveToJson(d) ==
    IF d.container = "record"
    THEN [outcome |-> "ok", written |-> <<[form |-> "object", text |-> d.items[1].text]>>]
    ELSE IF d.container = "list" /\ d.items # <<>> /\ d.items[1].kind = "record"
    THEN IF \E i \in 1..Len(d.items) : d.items[i].kind # "record"
         THEN [outcome |-> "AttributeError", written |-> <<>>]
         ELSE [outcome |-> "ok",
               written |-> [i \in 1..Len(d.items) |->
                              [form |-> "object", text |-> d.items[i].text]]]
    ELSE JsonDump(d, "default_serializer")

\* save_json / save_to_json(data, filename): the file is opened for writing
\* before anything is encoded.
save_to_json(d) ==
    /\ sink.stage = "none"
    /\ LET r == SaveToJson(d) IN
         sink' = [stage |-> "done", fn |-> "save_to_json", data |-> d,
                  outcome |-> r.outcome, exists |-> TRUE, written |-> r.written]
    /\ UNCHANGED <<gateVars, mapVars, twoVars, queryVars, callVars, cli, store>>

\* LocalStorage.write_json(path, obj): dump to the temporary file, then replace.
LocalStorage_write_json(d) ==
    /\ sink.stage = "none"
    /\ LET r == JsonDump(d, "str") IN
         sink' = [stage |-> "done", fn |-> "LocalStorage.write_json", data |-> d,
                  outcome |-> r.outcome, exists |-> r.outcome = "ok", written |-> r.written]
    /\ UNCHANGED <<gateVars, mapVars, twoVars, queryVars, callVars, cli, store>>

\* S3Storage.write_json(path, obj): json.dumps, then put_object.
S3Storage_write_json(d) ==
    /\ sink.stage = "none"
    /\ LET r == JsonDump(d, "str") IN
         sink' = [stage |-> "done", fn |-> "S3Storage.write_json", data |-> d,
                  outcome |-> r.outcome, exists |-> r.outcome = "ok", written |-> r.written]
    /\ UNCHANGED <<gateVars, mapVars, twoVars, queryVars, callVars, cli, store>>

\* ---- CSV
\* The values of a row: a scalar, a list, a tuple, a mapping.
CsvValues ==
    {[kind |-> "int", items |-> <<"7">>],
     [kind |-> "list", items |-> <<"1", "2">>],
     [kind |-> "tuple", items |-> <<"1", "2">>],
     [kind |-> "dict", items |-> <<"\"a\": 1">>]}
CsvKeys == {"id", "tags"}

\* A row is a record (model_dump gives every field, in declaration order) or
\* a mapping with any keys in any order.
CsvRows ==
    {[record |-> TRUE, cells |-> <<[key |-> "id", v |-> a], [key |-> "tags", v |-> b]>>] :
        a \in {[kind |-> "int", items |-> <<"7">>]}, b \in CsvValues}
    \cup {[record |-> FALSE, cells |-> <<>>]}
    \cup {[record |-> FALSE, cells |-> <<[key |-> k, v |-> a]>>] : k \in CsvKeys, a \in CsvValues}
    \cup {r \in {[record |-> FALSE, cells |-> <<[key |-> k, v |-> a], [key |-> l, v |-> b]>>] :
                    k \in CsvKeys, l \in CsvKeys, a \in CsvValues, b \in CsvValues} :
             r.cells[1].key # r.cells[2].key}

\* list(row.keys())
KeysOf(row) == [i \in 1..Len(row.cells) |-> row.cells[i].key]
\* row.get(key, restval): the value of the key, or <<>> when it has none.
CellsAt(row, key) == {i \in 1..Len(row.cells) : row.cells[i].key = key}

\* json.dumps(v) of a list, tuple or mapping; str(v) of anything else.
JsonDumps(v) ==
    IF v.kind = "dict"
    THEN <<"{">> \o Join(", ", [i \in 1..Len(v.items) |-> <<v.items[i]>>]) \o <<"}">>
    ELSE <<"[">> \o Join(", ", [i \in 1..Len(v.items) |-> <<v.items[i]>>]) \o <<"]">>
\* clean_row[k] of save_to_csv, as written by csv.writer.
Clean(v) ==
    IF v.kind \in {"dict", "list", "tuple"} THEN JsonDumps(v) ELSE v.items

\* DictWriter.writerow raises ValueError for a key outside fieldnames.
WrongFields(headers, row) ==
    {i \in 1..Len(row.cells) : \A h \in 1..Len(headers) : headers[h] # row.cells[i].key}
\* DictWriter.writerow: one cell per header, empty for a header the row lacks.
WriteRow(headers, row) ==
    [h \in 1..Len(headers) |->
        IF CellsAt(row, headers[h]) = {} THEN <<>>
        ELSE Clean(row.cells[CHOOSE i \in CellsAt(row, headers[h]) : TRUE].v)]

\* The lines save_to_csv has written when it returns or raises.
RECURSIVE WriteRows(_, _, _)
WriteRows(headers, rows, lines) ==
    IF rows = <<>> THEN [outcome |-> "ok", written |-> lines]
    ELSE IF WrongFields(headers, Head(rows)) # {}
    THEN [outcome |-> "ValueError", written |-> lines]
    ELSE WriteRows(headers, Tail(rows), Append(lines, WriteRow(headers, Head(rows))))

\* save_csv / save_to_csv(data, filename)
save_to_csv(rows) ==
    /\ sink.stage = "none"
    /\ LET r == IF rows = <<>> THEN [outcome |-> "ok", written |-> <<>>]
                ELSE WriteRows(KeysOf(rows[1]), rows, <<KeysOf(rows[1])>>)
       IN  sink' = [stage |-> "done", fn |-> "save_to_csv",
                    data |-> [container |-> "rows", items |-> rows],
                    outcome |-> r.outcome, exists |-> rows # <<>>, written |-> r.written]
    /\ UNCHANGED <<gateVars, mapVars, twoVars, queryVars, callVars, cli, store>>

NextSink ==
    \/ \E d \in JsonData : save_to_json(d)
    \/ \E d \in JsonData : LocalStorage_write_json(d)
    \/ \E d \in JsonData : S3Storage_write_json(d)
    \/ \E rows \in SeqsUpTo(CsvRows, MaxRows) : save_to_csv(rows)

SpecSink == InitCli /\ [][NextSink]_vars

\* -------------------------------------------------------- LocalStorage
\* A file is an inode holding the chunks written to it; the destination p
\* and the temporary p + ".tmp" are names bound to inodes.  Every writer of
\* p computes the same temporary name.
\* The chunks of the data of writer x: one f.write for write_bytes, the
\* buffered writes of json.dump for write_json.  Writer 0 wrote the previous
\* content of the destination.
DataOf(x, method) ==
    [n \in 1..(IF method = "write_json" THEN MaxChunks ELSE 1) |-> [by |-> x, n |-> n]]
\* The bytes a write past the end of a truncated file leaves before it.
Hole == [by |-> 0, n |-> 0]

\* write(2) of chunk c at offset off of a file holding cs.
WriteAt(cs, off, c) ==
    [i \in 1..(IF Len(cs) > off THEN Len(cs) ELSE off) |->
        IF i = off THEN c ELSE IF i <= Len(cs) THEN cs[i] ELSE Hole]

\* LocalStorage.__init__: the base directory, where p exists or not.
LocalStorage_init(prior) ==
    /\ store.stage = "none"
    /\ store' = IF prior
                THEN [store EXCEPT !.stage = "ready", !.dest = 1,
                                   !.inodes = <<DataOf(0, "write_bytes")>>]
                ELSE [store EXCEPT !.stage = "ready"]
    /\ UNCHANGED <<gateVars, mapVars, twoVars, queryVars, callVars, cli, sink>>

\* tmp.write_bytes(data) / open(tmp, "w"): the temporary is created, or the
\* file of that name is truncated.
OpenTmp(x, method) ==
    /\ store.stage = "ready"
    /\ store.w[x].pc = "idle"
    /\ IF store.tmp = NoInode
       THEN store' = [store EXCEPT !.tmp = Len(store.inodes) + 1,
                                   !.inodes = Append(@, <<>>),
                                   !.w[x] = [pc |-> "writing", method |-> method,
                                             fd |-> Len(store.inodes) + 1, off |-> 1]]
       ELSE store' = [store EXCEPT !.inodes[store.tmp] = <<>>,
                                   !.w[x] = [pc |-> "writing", method |-> method,
                                             fd |-> store.tmp, off |-> 1]]
    /\ UNCHANGED <<gateVars, mapVars, twoVars, queryVars, callVars, cli, sink>>

\* One write of the open file reaches the disk, at the writer's own offset.
WriteChunk(x) ==
    /\ store.w[x].pc = "writing"
    /\ store.w[x].off <= Len(DataOf(x, store.w[x].method))
    /\ store' = [store EXCEPT
                    !.inodes[store.w[x].fd] =
                        WriteAt(@, store.w[x].off, DataOf(x, store.w[x].method)[store.w[x].off]),
                    !.w[x].off = @ + 1]
    /\ UNCHANGED <<gateVars, mapVars, twoVars, queryVars, callVars, cli, sink>>

\* tmp.replace(p), then return str(p); FileNotFoundError when the temporary
\* name is gone.
Replace(x) ==
    /\ store.w[x].pc = "writing"
    /\ store.w[x].off > Len(DataOf(x, store.w[x].method))
    /\ IF store.tmp = NoInode
       THEN store' = [store EXCEPT !.w[x].pc = "FileNotFoundError"]
       ELSE store' = [store EXCEPT !.dest = store.tmp, !.tmp = NoInode,
                                   !.w[x].pc = "returned"]
    /\ UNCHANGED <<gateVars, mapVars, twoVars, queryVars, callVars, cli, sink>>

NextStore ==
    \/ \E prior \in BOOLEAN : LocalStorage_init(prior)
    \/ \E x \in Writers, method \in {"write_bytes", "write_json"} : OpenTmp(x, method)
    \/ \E x \in Writers : WriteChunk(x)
    \/ \E x \in Writers : Replace(x)

SpecStore == InitCli /\ [][NextStore]_vars

\* ------------------------------------------- arguments of an operation
\* No public method checks its arguments.
ArgsRejectedNever(c) == FALSE
\* get_thing, get_family: if not ids.  get_plays: if not params.get("username")
\* and not (params.get("id") and params.get("type")), each of them set only
\* from a truthy argument.
ArgsRejected(c) ==
    CASE c.method \in {"get_thing", "get_family"} -> ~IsTruthy(c.ids)
      [] c.method = "get_plays" ->
            ~IsTruthy(c.username) /\ ~(IsTruthy(c.thing_id) /\ IsTruthy(c.thing_type))
      [] OTHER -> FALSE

\* The calls a caller can make.
MethodCalls ==
    {[method |-> m, ids |-> ids, username |-> PyNone, thing_id |-> PyNone,
      thing_type |-> PyNone] :
        m \in {"get_thing", "get_family"}, ids \in {PyList(<<>>), PyList(<<13>>)}}
    \cup {[method |-> "get_plays", ids |-> PyNone, username |-> u, thing_id |-> i,
           thing_type |-> t] :
             u \in {PyNone, PyStr(""), PyStr("alice")},
             i \in {PyNone, PyInteger(0), PyInteger(13)},
             t \in {PyNone, PyStr("thing")}}
    \cup {[method |-> "get_user", ids |-> PyNone, username |-> PyStr("alice"),
           thing_id |-> PyNone, thing_type |-> PyNone]}

ValueErrorRaised == [kind |-> "ValueError", msg |-> "", status |-> 0, body |-> ""]

\* A public operation is called: the argument check raises, or the
\* parameters are built and _request_xml starts.
OperationCall(o, c) ==
    /\ ctor = "ok"
    /\ pc[o] = "idle"
    /\ calls' = [calls EXCEPT ![o] = c]
    /\ IF ArgsRejected(c)
       THEN /\ pc' = [pc EXCEPT ![o] = "done"]
            /\ result' = [result EXCEPT ![o] = ValueErrorRaised]
            /\ UNCHANGED <<attempts, client, should_close>>
       ELSE /\ attempts' = [attempts EXCEPT ![o] = 0]
            /\ client' = [client EXCEPT ![o] = GetClient(http_client, token)]
            /\ should_close' = [should_close EXCEPT ![o] = (http_client = NoClient)]
            /\ pc' = [pc EXCEPT ![o] = "throttle"]
            /\ UNCHANGED result
    /\ UNCHANGED <<env_token, entry, token_arg, ctor, token, min_delay, max_poll_attempts,
                   http_client, ctx, last_request_ts, lock, waiters, now, wake,
                   closed, log>>
    /\ UNCHANGED <<mapVars, twoVars, queryVars, ioVars>>

\* One caller tries every call; the other makes a call that is accepted.
NextArgs ==
    \/ \E D \in 1..MaxDelay, K \in Polls : Construct("argtok", D, K)
    \/ \E c \in MethodCalls : OperationCall(TheOp, c)
    \/ \E o \in Ops \ {TheOp}, c \in {x \in MethodCalls : x.method = "get_user"} :
          OperationCall(o, c)
    \/ \E o \in Ops : ThrottleEnter(o)
    \/ \E o \in Ops : LockGranted(o)
    \/ \E o \in Ops : ThrottleWake(o)
    \/ \E o \in Ops, r \in ResponsesTwo : Respond(o, r)
    \/ \E o \in Ops : BackoffWake(o)
    \/ Tick

SpecArgs == InitTwo /\ [][NextArgs]_vars

\* ------------------------------------------------- the mappers, alone
\* A payload is handed to one of the six parse_xml class methods; the gate
\* stays as constructed.
InitMap ==
    /\ env_token = None
    /\ entry = "BGGClient"
    /\ token_arg = None
    /\ ctor = "none"
    /\ token = None
    /\ min_delay = 0
    /\ max_poll_attempts = 0
    /\ http_client = NoClient
    /\ ctx = "never"
    /\ last_request_ts = 0
    /\ lock = NoOp
    /\ waiters = <<>>
    /\ now = Epoch
    /\ pc = [o \in Ops |-> "idle"]
    /\ attempts = [o \in Ops |-> 0]
    /\ wake = [o \in Ops |-> NoWake]
    /\ client = [o \in Ops |-> NoClient]
    /\ should_close = [o \in Ops |-> FALSE]
    /\ closed = [o \in Ops |-> FALSE]
    /\ result = [o \in Ops |-> NoResult]
    /\ log = <<>>
    /\ payload \in Payloads
    /\ mapper = "none"
    /\ parsed = NoParse
    /\ gates = [i \in Instances |-> NewGate]
    /\ search_query = NoQuery
    /\ search_string = <<>>
    /\ cli = NoCli
    /\ sink = NoSink
    /\ store = NoStore
    /\ calls = [o \in Ops |-> NoCall]

ParseWith(m) ==
    /\ mapper = "none"
    /\ mapper' = m
    /\ parsed' = ParseXml(m, payload)
    /\ UNCHANGED <<gateVars, payload, twoVars, queryVars, ioVars, callVars>>

ThingSchema_parse_xml == ParseWith("Thing")
UserSchema_parse_xml == ParseWith("User")
CollectionSchema_parse_xml == ParseWith("Collection")
PlaysSchema_parse_xml == ParseWith("Plays")
SearchSchema_parse_xml == ParseWith("Search")
FamilySchema_parse_xml == ParseWith("Family")

NextMap ==
    \/ ThingSchema_parse_xml
    \/ UserSchema_parse_xml
    \/ CollectionSchema_parse_xml
    \/ PlaysSchema_parse_xml
    \/ SearchSchema_parse_xml
    \/ FamilySchema_parse_xml

SpecMap == InitMap /\ [][NextMap]_vars


\* ------------------------------------------------ history of the gate
\* The indices in log of the physical attempts of operation o, and their count.
AttemptsOf(o) == {i \in 1..Len(log) : log[i].op = o}
Physical(o) == Cardinality(AttemptsOf(o))

\* The responses operation o has received so far, in order.
Answers(o) ==
    LET own == SelectSeq(log, LAMBDA e : e.op = o /\ e.resp # Pending)
    IN  [i \in 1..Len(own) |-> own[i].resp]

IsStatus(r, s) == r.kind = "http" /\ r.status = s
Count202(o) == Cardinality({i \in AttemptsOf(o) : IsStatus(log[i].resp, 202)})
LastAttempt(o, i) == \A j \in AttemptsOf(o) : j <= i
Max(a, b) == IF a >= b THEN a ELSE b

QueuedTooLong ==
    [kind |-> "RuntimeError", msg |-> "BGG queued too long", status |-> 0, body |-> ""]

\* ------------------------------------------------------------- claims

\* C1: on one client with min_delay D shared by concurrent operations, the
\* issue times of any two physical GET attempts (first attempts and retries
\* of all operations alike) differ by at least D.
C1_Spacing ==
    \A i, j \in 1..Len(log) : i < j => log[j].t - log[i].t >= min_delay

\* C1 witness: both operations have issued attempts, one of them a retry,
\* and two attempts of different operations are exactly min_delay apart.
C1_Witness ==
    /\ \A o \in Ops : Physical(o) >= 1
    /\ \E o \in Ops : Physical(o) >= 2
    /\ \E i \in 1..Len(log) - 1 :
          /\ log[i].op # log[i + 1].op
          /\ log[i + 1].t - log[i].t = min_delay

\* C2 as stated: for EVERY configured K, an operation whose every response
\* is 202 fails with "BGG queued too long" after exactly K attempts of its own.
C2_ExactlyK ==
    \A o \in Ops :
        (Physical(o) >= 1 /\ \A i \in AttemptsOf(o) : IsStatus(log[i].resp, 202))
        => /\ Physical(o) <= max_poll_attempts
           /\ pc[o] = "done" <=> Physical(o) = max_poll_attempts
           /\ pc[o] = "done" => result[o] = QueuedTooLong

\* C2 amended: an operation whose every response is 202 fails with
\* "BGG queued too long" after exactly K attempts of its own when K >= 1, and
\* after exactly one attempt when K <= 0; the count is per operation.
C2_ExactlyMaxK1 ==
    \A o \in Ops :
        (Physical(o) >= 1 /\ \A i \in AttemptsOf(o) : IsStatus(log[i].resp, 202))
        => /\ Physical(o) <= Max(max_poll_attempts, 1)
           /\ pc[o] = "done" <=> Physical(o) = Max(max_poll_attempts, 1)
           /\ pc[o] = "done" => result[o] = QueuedTooLong

\* C2 witness: an operation polled K >= 2 times, was exhausted, and the other
\* operation issued attempts on the same client meanwhile.
C2_Witness ==
    \E o \in Ops :
        /\ max_poll_attempts >= 2
        /\ result[o] = QueuedTooLong
        /\ Physical(o) = max_poll_attempts
        /\ \E p \in Ops \ {o} : \E i \in AttemptsOf(p), j \in AttemptsOf(o) : i < j

\* C3: with max_poll_attempts >= 3, an operation that receives 202, 202, 200
\* is still polling after the two 202s, and returns the body of the 200
\* after exactly 3 physical attempts, with no further attempt.
C3_TwoQueuedThenReady ==
    \A o \in Ops :
        max_poll_attempts >= 3 =>
            LET a == Answers(o) IN
            /\ (Len(a) = 2 /\ IsStatus(a[1], 202) /\ IsStatus(a[2], 202))
                  => pc[o] # "done"
            /\ (Len(a) >= 3 /\ IsStatus(a[1], 202) /\ IsStatus(a[2], 202)
                            /\ IsStatus(a[3], 200))
                  => /\ pc[o] = "done"
                     /\ result[o].kind = "ok"
                     /\ result[o].body = a[3].body
                     /\ Physical(o) = 3

\* C3 witness: an operation has completed after 202, 202, 200.
C3_Witness ==
    \E o \in Ops :
        /\ max_poll_attempts >= 3
        /\ pc[o] = "done"
        /\ Len(Answers(o)) = 3
        /\ IsStatus(Answers(o)[1], 202)
        /\ IsStatus(Answers(o)[2], 202)
        /\ IsStatus(Answers(o)[3], 200)

\* C4: a response with a status other than 200 or 202 ends the operation at
\* once with an error carrying that status and body, and the operation issues
\* no further attempt, however many 202s came before.
C4_BadStatusFailsAtOnce ==
    \A o \in Ops : \A i \in AttemptsOf(o) :
        (log[i].resp.kind = "http" /\ log[i].resp.status \notin {200, 202})
        => /\ LastAttempt(o, i)
           /\ pc[o] = "done"
           /\ result[o] = [kind |-> "RuntimeError", msg |-> "BGG API returned",
                           status |-> log[i].resp.status, body |-> log[i].resp.body]

\* C4 witness: an operation received a 202 and then a 500.
C4_Witness ==
    \E o \in Ops :
        /\ Count202(o) >= 1
        /\ \E i \in AttemptsOf(o) : IsStatus(log[i].resp, 500)

\* C5: a transport failure ends the operation with an error that is neither
\* the bad-status nor the polling-exhausted error, leaves the poll counter
\* where it was, and is not retried.
C5_TransportFailureSurfaces ==
    \A o \in Ops : \A i \in AttemptsOf(o) :
        log[i].resp.kind = "transport"
        => /\ LastAttempt(o, i)
           /\ pc[o] = "done"
           /\ result[o].kind = "httpx.TransportError"
           /\ result[o].kind # "RuntimeError"
           /\ attempts[o] = Count202(o)

\* C5 witness: an operation was queued once and then hit a transport failure.
C5_Witness ==
    \E o \in Ops :
        /\ Count202(o) = 1
        /\ \E i \in AttemptsOf(o) : log[i].resp.kind = "transport"

\* An attempt that did not end in a 200.
Failed(e) == e.resp.kind = "transport" \/ (e.resp.kind = "http" /\ e.resp.status # 200)

\* C6: every physical attempt stamps the shared last-request timestamp with
\* its issue time whatever its outcome, so the first attempt of an operation
\* that follows a failed attempt is at least min_delay after it.
C6_StampOnEveryAttempt ==
    /\ log # <<>> => last_request_ts = log[Len(log)].t
    /\ \A i, j \in 1..Len(log) :
          (i < j /\ Failed(log[i]) /\ log[i].op # log[j].op
                 /\ \A k \in AttemptsOf(log[j].op) : k >= j)
          => log[j].t - log[i].t >= min_delay

\* C6 witness: an operation failed (500 or transport failure) and the other
\* operation's first attempt came exactly min_delay after the failed attempt.
C6_Witness ==
    \E i \in 1..Len(log) - 1 :
        /\ log[i].resp.kind = "transport" \/ IsStatus(log[i].resp, 500)
        /\ pc[log[i].op] = "done"
        /\ log[i + 1].op # log[i].op
        /\ \A k \in AttemptsOf(log[i + 1].op) : k >= i + 1
        /\ log[i + 1].t = log[i].t + min_delay

\* C7: with no token argument and no BGG_API_TOKEN the construction fails
\* with ValueError before any physical attempt, for the async client and for
\* each synchronous wrapper; every attempt ever issued carries the bearer
\* credential fixed at construction.
C7_TokenRequiredAtConstruction ==
    /\ (ctor # "none" /\ token_arg = None /\ env_token = None)
          => ctor = "ValueError"
    /\ ctor # "ok" => log = <<>> /\ \A o \in Ops : pc[o] = "idle"
    /\ ctor = "ok" => Truthy(token) /\ token = ResolveToken(token_arg, env_token)
    /\ \A i \in 1..Len(log) : log[i].auth = Bearer(token)

\* C7 witness: a synchronous wrapper failed at construction for lack of a token.
C7_Witness ==
    /\ entry \in SyncWrappers
    /\ env_token = None
    /\ ctor = "ValueError"

\* C8 as stated: every physical request carries the same static identifying
\* header, with a persistent client (__aenter__) as with a temporary one.
C8_SameIdentifyingHeader ==
    \A i \in 1..Len(log) : log[i].ua = BGG_USER_AGENT

\* ----------------------------------------------------------------- C9
\* The tag of the element a mapper takes as its entity.
EntityTag(m) ==
    CASE m = "User" -> "user"
      [] m = "Plays" -> "play"
      [] OTHER -> "item"

\* C9: for every parse_xml and every well-formed payload, no exception
\* propagates out of the mapper: a numeric field whose source value is not
\* a number is absent in the produced record.
C9_NoExceptionFromNumericField ==
    (mapper # "none" /\ payload.wellformed) => parsed.ok

\* ---------------------------------------------------------------- C10
\* The payload whose root wraps the one entity that is the root of doc.
WrappedOnce(doc) == Document(Wrapped(<<doc.root>>))

\* A parsed payload whose root is itself the entity of the mapper used.
RootIsEntity ==
    /\ mapper # "none"
    /\ payload.wellformed
    /\ payload.root.tag = EntityTag(mapper)

\* What a list mapper produces from no entity at all.
NoRecords(m) == Parsed(IF m = "Plays" THEN PlaysOf(<<>>) ELSE ItemsOf(<<>>))

\* C10 as stated: each mapper handles a payload whose root element is itself
\* the single entity exactly as it handles a payload whose root wraps that
\* one entity: both yield the same record(s).
C10_RootSameAsWrapped ==
    RootIsEntity => parsed = ParseXml(mapper, WrappedOnce(payload))

\* C10 amended: UserSchema.parse_xml handles a payload whose root is itself
\* the user exactly as it handles a payload whose root wraps that one user;
\* the five list mappers read only the children of the root, so a payload
\* whose root is itself the entity yields no record.
C10_OnlyUserTakesRootAsEntity ==
    RootIsEntity =>
        IF mapper = "User"
        THEN parsed = ParseXml("User", WrappedOnce(payload))
        ELSE parsed = NoRecords(mapper)

\* A user payload whose root is the user, mapped to a record with its id.
C10_Witness ==
    /\ RootIsEntity
    /\ mapper = "User"
    /\ parsed.ok
    /\ parsed.value.id = IntV(42)
    /\ parsed.value.buddies # <<>>

\* ---------------------------------------------------------------- C11
\* The elements a list mapper iterates over, and the records it made of them.
Iterated(m, doc) == FindAll(doc.root, EntityTag(m))
RecordsOf(m, p) == IF m = "Plays" THEN p.value.plays ELSE p.value.items

\* A list mapper returned its schema: one record per iterated element.
Mapped(m) == mapper = m /\ payload.wellformed /\ parsed.ok

\* A collection item as the fixture of test_parse_collection_xml gives it:
\* the name in the value attribute of <name>, the rating in the rating
\* attribute of <stats>.
NameAndRatingInAttributes(item) ==
    /\ ~IsNone(Find(item, "name"))
    /\ Truthy(Get(Find(item, "name").attrib, "value"))
    /\ ~IsNone(Find(item, "stats"))
    /\ Truthy(Get(Find(item, "stats").attrib, "rating"))

\* C11: for a collection item whose name element carries the name in its
\* value attribute and whose stats element carries the rating in its rating
\* attribute, CollectionSchema.parse_xml yields an item whose name is that
\* name and whose rating is that rating as a number.
C11_NameAndRatingFromAttributes ==
    Mapped("Collection") =>
        \A i \in 1..Len(Iterated("Collection", payload)) :
            LET item == Iterated("Collection", payload)[i]
                rec == RecordsOf("Collection", parsed)[i]
            IN  NameAndRatingInAttributes(item) =>
                    /\ rec.name = StrV(Get(Find(item, "name").attrib, "value"))
                    /\ rec.rating = PyFloat(Get(Find(item, "stats").attrib, "rating"))

\* ---------------------------------------------------------------- C12
\* The numeric fields of the records each mapper produces.
NumericFieldsOf(m) ==
    CASE m = "Thing" -> ThingNumericFields
      [] m = "Search" -> {"id", "yearpublished"}
      [] m = "Collection" -> {"objectid", "collid", "rating"}
      [] m = "Plays" -> {"id", "quantity", "length"}
      [] OTHER -> {"id"}

\* The value attribute of the first child with that tag, None without one.
ValueOf(e, tag) == Get(Find(e, tag).attrib, "value")
\* The element reached from e along a path of tags, NoElement when it ends.
RECURSIVE Descend(_, _)
Descend(e, path) ==
    IF path = <<>> \/ IsNone(e) THEN e ELSE Descend(Find(e, Head(path)), Tail(path))

\* Where the payload holds the source value of numeric field f of entity e.
SourceOf(m, e, f) ==
    CASE f \in {"id", "objectid", "collid", "quantity", "length"} -> Get(e.attrib, f)
      [] f \in {"usersrated", "average"} ->
            Get(Descend(e, <<"statistics", "ratings">>).attrib, f)
      [] f = "rank" ->
            LET ranks == Descend(e, <<"statistics", "ratings", "ranks">>)
            IN  Get(FindWithAttr(ranks, "rank", "id", "1").attrib, "value")
      [] f = "rating" -> ValueOf(Descend(e, <<"stats">>), "rating")
      [] OTHER -> ValueOf(e, f)

\* The entities a mapper reads from a payload, and the records made of them.
EntitiesRead(m, doc) ==
    IF m # "User" THEN Iterated(m, doc)
    ELSE IF IsNone(UserElement(doc.root)) THEN <<>> ELSE <<UserElement(doc.root)>>
RecordsMade(m, p) == IF m = "User" THEN <<p.value>> ELSE RecordsOf(m, p)

\* Every numeric source value of the payload is empty or missing.
OnlyEmptyNumbers(m, doc) ==
    \A i \in 1..Len(EntitiesRead(m, doc)) : \A f \in NumericFieldsOf(m) :
        SourceOf(m, EntitiesRead(m, doc)[i], f) \in {None, ""}

\* C12: a numeric field whose value attribute is the empty string is absent
\* in the produced record, never 0, and does not make the mapper raise, for
\* every numeric field of every mapper.
C12_EmptyStringIsAbsent ==
    (mapper # "none" /\ payload.wellformed) =>
        /\ OnlyEmptyNumbers(mapper, payload) => parsed.ok
        /\ parsed.ok =>
             \A i \in 1..Len(EntitiesRead(mapper, payload)) :
                \A f \in NumericFieldsOf(mapper) :
                    SourceOf(mapper, EntitiesRead(mapper, payload)[i], f) = ""
                        => RecordsMade(mapper, parsed)[i][f] = Absent

\* A play whose id, quantity and length are all empty strings, mapped.
C12_Witness ==
    /\ Mapped("Plays")
    /\ Len(Iterated("Plays", payload)) = 1
    /\ \A f \in NumericFieldsOf("Plays") : SourceOf("Plays", Iterated("Plays", payload)[1], f) = ""
    /\ \A f \in NumericFieldsOf("Plays") : RecordsOf("Plays", parsed)[1][f] = Absent

\* ---------------------------------------------------------------- C13
\* The ranking entries of an item, in document order.
RankingEntries(item) ==
    FindAll(Descend(item, <<"statistics", "ratings", "ranks">>), "rank")
\* Those with the primary identifier.
PrimaryEntries(item) ==
    SelectSeq(RankingEntries(item), LAMBDA r : Get(r.attrib, "id") = "1")

\* C13: ThingSchema.parse_xml takes an item's rank only from the ranking
\* entry with the primary identifier (id 1): when that entry's value is
\* "Not Ranked", or when only non-primary entries exist, the rank is absent,
\* whatever values the non-primary entries hold.
C13_RankOnlyFromPrimary ==
    Mapped("Thing") =>
        \A i \in 1..Len(Iterated("Thing", payload)) :
            LET item == Iterated("Thing", payload)[i]
                primary == PrimaryEntries(item)
            IN  (\/ primary = <<>>
                 \/ Get(primary[1].attrib, "value") = "Not Ranked")
                    => RecordsOf("Thing", parsed)[i].rank = Absent

\* An item with a numbered non-primary entry and an unranked primary entry.
C13_Witness ==
    /\ Mapped("Thing")
    /\ Len(Iterated("Thing", payload)) = 1
    /\ LET entries == RankingEntries(Iterated("Thing", payload)[1])
       IN  /\ Len(entries) = 2
           /\ entries[1].attrib = Attrs({<<"id", "2">>, <<"value", "5">>})
           /\ entries[2].attrib = Attrs({<<"id", "1">>, <<"value", "Not Ranked">>})
    /\ RecordsOf("Thing", parsed)[1].rank = Absent

\* ---------------------------------------------------------------- C14
\* The link kind each tag list of a ThingItem collects.
TagKind(field) ==
    CASE field = "categories" -> "boardgamecategory"
      [] field = "mechanics" -> "boardgamemechanic"
      [] field = "designers" -> "boardgamedesigner"
      [] field = "artists" -> "boardgameartist"
      [] field = "publishers" -> "boardgamepublisher"
TagLists == {"categories", "mechanics", "designers", "artists", "publishers"}

\* The positions, among the item's links, of those of a kind that carry a
\* value.
LinksOfKind(item, kind) ==
    {j \in 1..Len(FindAll(item, "link")) :
        /\ Get(FindAll(item, "link")[j].attrib, "type") = kind
        /\ Get(FindAll(item, "link")[j].attrib, "value") # None}
\* The k-th smallest member of a set of positions.
Nth(S, k) == CHOOSE j \in S : Cardinality({x \in S : x < j}) = k - 1

\* C14: each tag list of a ThingItem is exactly the subsequence of the
\* item's link values whose type equals the list's target kind, in document
\* order and with duplicates kept; links of other kinds never appear in it.
C14_TagListsAreFilteredLinks ==
    Mapped("Thing") =>
        \A i \in 1..Len(Iterated("Thing", payload)) : \A field \in TagLists :
            LET item == Iterated("Thing", payload)[i]
                list == RecordsOf("Thing", parsed)[i][field]
                at == LinksOfKind(item, TagKind(field))
            IN  /\ Len(list) = Cardinality(at)
                /\ \A k \in 1..Len(list) :
                      list[k] = Get(FindAll(item, "link")[Nth(at, k)].attrib, "value")

\* Three links, the first and the last of the requested kind and with the
\* same value: the list holds both, in order, without the middle one.
C14_Witness ==
    /\ Mapped("Thing")
    /\ Len(Iterated("Thing", payload)) = 1
    /\ LET links == FindAll(Iterated("Thing", payload)[1], "link")
       IN  /\ Len(links) = 3
           /\ links[1].attrib = Attrs({<<"type", "boardgamecategory">>, <<"value", "Economic">>})
           /\ links[2].attrib = Attrs({<<"type", "boardgamemechanic">>, <<"value", "Dice">>})
           /\ links[3].attrib = Attrs({<<"type", "boardgamecategory">>, <<"value", "Economic">>})
    /\ RecordsOf("Thing", parsed)[1].categories = <<"Economic", "Economic">>
    /\ RecordsOf("Thing", parsed)[1].mechanics = <<"Dice">>

\* ---------------------------------------------------------------- C15
\* A source value that the conversion of numeric field f accepts, or that
\* the mapper sets aside before converting.
Coercible(f, v) ==
    \/ v \in {None, ""}
    \/ f = "rank" /\ v = "Not Ranked"
    \/ f = "rating" /\ v = "N/A"
    \/ f \in {"average", "rating"} /\ PyFloat(v) # Raised
    \/ f \notin {"average", "rating"} /\ PyInt(v) # Raised

\* Every numeric source value of the payload can be converted.
OnlyCoercibleNumbers(m, doc) ==
    \A i \in 1..Len(EntitiesRead(m, doc)) : \A f \in NumericFieldsOf(m) :
        Coercible(f, SourceOf(m, EntitiesRead(m, doc)[i], f))

\* C15: the type of every ThingItem produced by ThingSchema.parse_xml or
\* SearchSchema.parse_xml is one of the six enumerated tags or absent: an
\* unrecognized or missing type attribute yields an absent type and never
\* an error.
C15_TypeEnumeratedOrAbsent ==
    (mapper \in {"Thing", "Search"} /\ payload.wellformed) =>
        /\ OnlyCoercibleNumbers(mapper, payload) => parsed.ok
        /\ parsed.ok =>
             \A i \in 1..Len(Iterated(mapper, payload)) :
                LET t == Get(Iterated(mapper, payload)[i].attrib, "type")
                    rec == RecordsOf(mapper, parsed)[i]
                IN  /\ rec.type \in {Absent} \cup {StrV(tag) : tag \in ThingTypes}
                    /\ t \notin ThingTypes => rec.type = Absent
                    /\ t \in ThingTypes => rec.type = StrV(t)

\* A search result of a type outside the enumeration, mapped without type.
C15_Witness ==
    /\ Mapped("Search")
    /\ Len(Iterated("Search", payload)) = 1
    /\ Get(Iterated("Search", payload)[1].attrib, "type") = "boardgamefamily"
    /\ RecordsOf("Search", parsed)[1].type = Absent
    /\ RecordsOf("Search", parsed)[1].id = IntV(42)

\* ---------------------------------------------------------------- C16
\* The list-valued fields of a user and the element each is read from.
UserLists == {"buddies", "guilds", "hot", "top"}

\* C16: in every record produced by a mapper, each list-valued field (the
\* five tag lists, a play's players, a user's buddies, guilds, hot and top)
\* is a list, empty when the corresponding sub-structure is entirely absent
\* from the payload; an absent sub-structure never raises.
C16_ListsDefaultToEmpty ==
    (mapper \in {"Thing", "Search", "Plays", "User"} /\ payload.wellformed) =>
        /\ (/\ OnlyCoercibleNumbers(mapper, payload)
            /\ \A i \in 1..Len(EntitiesRead(mapper, payload)) :
                  EntitiesRead(mapper, payload)[i].children = <<>>)
              => parsed.ok
        /\ (parsed.ok /\ mapper \in {"Thing", "Search"}) =>
              \A i \in 1..Len(Iterated(mapper, payload)) : \A field \in TagLists :
                 LinksOfKind(Iterated(mapper, payload)[i], TagKind(field)) = {}
                    => RecordsOf(mapper, parsed)[i][field] = <<>>
        /\ (parsed.ok /\ mapper = "Plays") =>
              \A i \in 1..Len(Iterated("Plays", payload)) :
                 IsNone(Find(Iterated("Plays", payload)[i], "players"))
                    => RecordsOf("Plays", parsed)[i].players = <<>>
        /\ (parsed.ok /\ mapper = "User") =>
              \A field \in UserLists :
                 (\/ IsNone(UserElement(payload.root))
                  \/ IsNone(Find(UserElement(payload.root), field)))
                    => parsed.value[field] = <<>>

\* A user with a hot list and no buddies element at all.
C16_Witness ==
    /\ Mapped("User")
    /\ ~IsNone(UserElement(payload.root))
    /\ IsNone(Find(UserElement(payload.root), "buddies"))
    /\ ~IsNone(Find(UserElement(payload.root), "firstname"))
    /\ parsed.value.buddies = <<>>
    /\ parsed.value.hot # <<>>

\* ---------------------------------------------------------------- C17
\* C17: when the response body cannot be parsed as XML at all, every
\* parse_xml fails with a hard malformed-payload error instead of returning
\* an empty or partial record, and a client operation whose 200 body is
\* unparseable surfaces that failure to its caller without another physical
\* attempt.
C17_MalformedPayloadSurfaces ==
    (mapper # "none" /\ ~payload.wellformed) =>
        /\ parsed = ParseError
        /\ pc[TheOp] = "done"
        /\ log # <<>>
        /\ log[Len(log)].resp = [kind |-> "http", status |-> 200, body |-> NOT_XML]
        /\ \A i \in 1..(Len(log) - 1) : IsStatus(log[i].resp, 202)

\* get_thing: one 202, then a 200 whose body is not XML, parsed and ended.
C17_Witness ==
    /\ mapper = "Thing"
    /\ ~payload.wellformed
    /\ parsed = ParseError
    /\ Len(log) = 2
    /\ IsStatus(log[1].resp, 202)
    /\ log[2].resp.body = NOT_XML
    /\ pc[TheOp] = "done"

\* ---------------------------------------------------------------- C18
\* An operation that was called ends, in success or in failure.
Terminates == (pc[TheOp] # "idle") ~> (pc[TheOp] = "done")

\* C18 as stated: every logical operation terminates: for any sequence of
\* responses, an operation on a client with max_poll_attempts K issues at
\* most K physical attempts and then ends in success or in failure.
C18_AtMostKThenEnds ==
    /\ [](ctor = "ok" => Physical(TheOp) <= max_poll_attempts)
    /\ Terminates

\* C18 amended: every logical operation terminates: for any sequence of
\* responses, an operation on a client with max_poll_attempts K issues at
\* most max(K, 1) physical attempts and then ends in success or in failure;
\* it cannot poll forever.
C18_AtMostMaxK1ThenEnds ==
    /\ [](ctor = "ok" => Physical(TheOp) <= Max(max_poll_attempts, 1))
    /\ Terminates

\* An operation with K = 2 that was answered 202 twice and has ended.
C18_Witness ==
    /\ ctor = "ok"
    /\ max_poll_attempts = 2
    /\ Physical(TheOp) = 2
    /\ Count202(TheOp) = 2
    /\ pc[TheOp] = "done"
    /\ result[TheOp] = QueuedTooLong

\* ---------------------------------------------------------------- C19
\* The operation that runs on each instance.
OpOn(inst) == IF inst = "A" THEN 1 ELSE 2
\* The issue time of the last GET of an operation, 0 before its first.
LastGetAt(o) ==
    IF AttemptsOf(o) = {} THEN 0
    ELSE log[CHOOSE i \in AttemptsOf(o) : LastAttempt(o, i)].t

\* C19: two distinct BGGClient instances never contend: an operation on
\* client A never reads or changes client B's last-request timestamp and
\* never waits for B's lock, so A's attempts are not delayed by B's traffic
\* (and likewise for B): each instance's timestamp is that of its own last
\* GET, no operation queues for a lock, and an operation sleeps in _throttle
\* only until min_delay after its own instance's last GET.
C19_InstancesNeverContend ==
    \A inst \in Instances :
        /\ gates[inst].last_request_ts = LastGetAt(OpOn(inst))
        /\ gates[inst].lock \in {NoOp, OpOn(inst)}
        /\ gates[inst].waiters = <<>>
        /\ pc[OpOn(inst)] # "lock_wait"
        /\ pc[OpOn(inst)] = "throttle_sleep" =>
              /\ AttemptsOf(OpOn(inst)) # {}
              /\ wake[OpOn(inst)].den = 1
              /\ wake[OpOn(inst)].start + wake[OpOn(inst)].num
                    = LastGetAt(OpOn(inst)) + min_delay

\* B sent a GET, and A sent its first GET at the same tick, less than
\* min_delay later, while B sleeps in _throttle for its own second GET.
C19_Witness ==
    /\ Len(log) = 2
    /\ log[1].op = 2
    /\ log[2].op = 1
    /\ log[1].t = log[2].t
    /\ min_delay = 2
    /\ pc[2] = "throttle_sleep"
    /\ pc[1] = "in_flight"

\* ---------------------------------------------------------------- C20
\* The types of a query, joined by commas in their given order.
RECURSIVE CommaJoined(_)
CommaJoined(types) ==
    IF Len(types) = 1 THEN <<types[1]>>
    ELSE <<types[1], ",">> \o CommaJoined(Tail(types))

\* C20: search_string is "search?query=" followed by the query, then
\* "&type=" and the types joined by commas in their given order exactly when
\* types is non-empty, then "&exact=1" exactly when exact is true, in that
\* fixed order; exact defaults to true, and from_query replaces every space
\* of the query by "+".
C20_SearchString ==
    /\ search_string # <<>> =>
          search_string =
              <<"search?", "query=">> \o search_query.query
              \o (IF search_query.types # <<>>
                  THEN <<"&", "type=">> \o CommaJoined(search_query.types)
                  ELSE <<>>)
              \o (IF search_query.exact THEN <<"&", "exact=1">> ELSE <<>>)
    /\ search_query.via \in {"from_query", "from_types"} => search_query.exact
    /\ search_query.via = "from_query" =>
          /\ Len(search_query.query) = Len(search_query.given)
          /\ \A i \in 1..Len(search_query.given) :
                search_query.query[i] =
                    IF search_query.given[i] = " " THEN "+" ELSE search_query.given[i]
    /\ search_query.via \in {"cls", "from_types"} =>
          search_query.query = search_query.given

\* from_query(" a ") read as "search?query=+a+&exact=1".
C20_Witness ==
    /\ search_query.via = "from_query"
    /\ search_query.given = <<" ", "a", " ">>
    /\ search_string = <<"search?", "query=", "+", "a", "+", "&", "exact=1">>

\* ---------------------------------------------------------------- C21
\* C21: for each setting (extractor, things, families, query, user, out,
\* format) the resolved value is the command line's when the flag was given,
\* else the config file's when it has the key, else the built-in default.
C21_CliOverConfigOverDefault ==
    cli.stage = "resolved" =>
        \A s \in Settings :
            cli.settings[s] =
                IF cli.given[s] THEN cli.args[s]
                ELSE IF cli.cfg[s] # Missing THEN cli.cfg[s]
                ELSE ArgDefault(s)

\* ---------------------------------------------------------------- C22
\* C22: saving to JSON a mapping or list that holds a value which is neither
\* JSON-native nor a record succeeds and writes that value's string form, in
\* the file sink as in the two storage backends; it never ends in a
\* serialization error.
C22_StringFallbackEverywhere ==
    /\ sink.fn \in {"save_to_json", "LocalStorage.write_json", "S3Storage.write_json"}
    /\ sink.data.container \in {"list", "dict"}
    /\ \E i \in 1..Len(sink.data.items) : sink.data.items[i] = OtherValue
    => /\ sink.outcome = "ok"
       /\ Len(sink.written) = Len(sink.data.items)
       /\ \A i \in 1..Len(sink.data.items) :
             sink.data.items[i] = OtherValue =>
                 sink.written[i] = [form |-> "string", text |-> OtherValue.text]

\* ---------------------------------------------------------------- C23
\* C23: save_csv of a non-empty sequence of n records or mappings writes one
\* header row followed by exactly n data rows in input order, each list-,
\* tuple- or mapping-valued field written as its JSON string, whatever the
\* key sets of the rows after the first.
C23_HeaderThenEveryRow ==
    sink.fn = "save_to_csv" /\ sink.data.items # <<>> =>
        LET rows == sink.data.items
            headers == KeysOf(rows[1])
        IN  /\ sink.outcome = "ok"
            /\ Len(sink.written) = Len(rows) + 1
            /\ sink.written[1] = headers
            /\ \A n \in 1..Len(rows) : \A i \in 1..Len(rows[n].cells) :
                  \A h \in 1..Len(headers) :
                      /\ headers[h] = rows[n].cells[i].key
                      /\ rows[n].cells[i].v.kind \in {"list", "tuple", "dict"}
                      => sink.written[n + 1][h] = JsonDumps(rows[n].cells[i].v)

\* ---------------------------------------------------------------- C24
\* The complete data of one write, or the previous complete content.
Complete(cs) ==
    \/ cs = DataOf(0, "write_bytes")
    \/ \E x \in Writers : store.w[x].method # "none" /\ cs = DataOf(x, store.w[x].method)

\* C24: at every moment the destination path does not exist, holds its
\* previous complete content, or holds the complete data of one write, also
\* when two writes to the same path interleave; and once every write that
\* was started has returned, no temporary file is left.
C24_DestinationNeverPartial ==
    /\ store.dest # NoInode => Complete(store.inodes[store.dest])
    /\ (\A x \in Writers : store.w[x].pc # "writing") => store.tmp = NoInode
    /\ \A x \in Writers : store.w[x].pc # "FileNotFoundError"

\* ---------------------------------------------------------------- C25
\* C25: while an operation waits in its backoff after its n-th 202 response
\* (n below max_poll_attempts), the wait is min_delay * 1.5^(n-1): min_delay
\* for the first, and for each later one 1.5 times the wait before it, which
\* is longer whenever min_delay > 0.
C25_BackoffGeometric ==
    \A o \in Ops : pc[o] = "backoff" =>
        LET n == Count202(o) IN
        /\ n >= 1 /\ n < max_poll_attempts
        /\ wake[o].den > 0
        /\ wake[o].num * Pow(2, n - 1) = min_delay * Pow(3, n - 1) * wake[o].den
        /\ n = 1 => wake[o].num = min_delay * wake[o].den
        /\ n > 1 /\ min_delay > 0 =>
              wake[o].num * Pow(2, n - 2) > min_delay * Pow(3, n - 2) * wake[o].den

\* An operation in its second backoff, of 1.5 * min_delay.
C25_Witness ==
    \E o \in Ops :
        /\ pc[o] = "backoff"
        /\ Count202(o) = 2
        /\ 2 * wake[o].num = 3 * min_delay * wake[o].den

\* ---------------------------------------------------------------- C26
\* The lock is held only by a caller asleep inside _throttle, and whoever
\* waits for it is behind such a caller or is the next to get it.
LockOnlyInsideThrottle ==
    /\ lock # NoOp => pc[lock] = "throttle_sleep"
    /\ \A i \in 1..Len(waiters) : pc[waiters[i]] = "lock_wait"
    /\ \A o \in Ops : pc[o] = "lock_wait" => \E i \in 1..Len(waiters) : waiters[i] = o

\* A caller that leaves _throttle by an exception gives the lock back and
\* does not touch the timestamp.
CancelReleases ==
    \A o \in Ops :
        pc[o] \in {"throttle_sleep", "lock_wait"} /\ pc'[o] = "done" =>
            /\ result'[o] = Cancelled
            /\ last_request_ts' = last_request_ts
            /\ lock' # o
            /\ lock = o => lock' = NoOp
            /\ \A i \in 1..Len(waiters') : waiters'[i] # o

\* C26: a caller cancelled while suspended inside the throttle wait releases
\* the client's lock and leaves last_request_ts unchanged; in every reachable
\* state the lock is held only by a caller inside _throttle, so the other
\* callers are never left waiting for a lock nobody will release.
C26_CancelKeepsGateUsable ==
    []LockOnlyInsideThrottle /\ [][CancelReleases]_vars

\* The holder of the lock was cancelled in its sleep while another caller
\* waited for the lock, which is free again.
C26_Witness ==
    \E o \in Ops, q \in Ops :
        /\ result[o] = Cancelled
        /\ wake[o] # NoWake
        /\ lock = NoOp
        /\ pc[q] = "lock_wait"

\* ---------------------------------------------------------------- C27
\* C27: with the operations of Ops sharing one client and a remote that
\* answers every attempt, an operation that is at the throttle eventually
\* sends its request, and an operation that was called eventually completes,
\* in success or in failure.
C27_NoStarvation ==
    \A o \in Ops :
        /\ pc[o] \in {"throttle", "lock_wait", "throttle_sleep"} ~> pc[o] = "in_flight"
        /\ pc[o] # "idle" ~> pc[o] = "done"

\* Both operations have ended, one of them after sleeping in _throttle
\* behind the request of the other.
C27_Witness ==
    \E o \in Ops, q \in Ops :
        /\ o # q
        /\ pc[o] = "done" /\ pc[q] = "done"
        /\ attempts[o] = 0
        /\ wake[o] # NoWake
        /\ result[o].kind = "ok"

\* ---------------------------------------------------------------- C28
\* C28: an operation in its backoff wait neither holds the client's lock nor
\* queues for it, and a caller asleep in _throttle sleeps for what is left of
\* the min_delay spacing since the last request, never longer: the backoff
\* of one operation is no part of the wait of another.
C28_BackoffOutsideLock ==
    /\ \A o \in Ops : pc[o] = "backoff" =>
          /\ lock # o
          /\ \A i \in 1..Len(waiters) : waiters[i] # o
    /\ \A q \in Ops : pc[q] = "throttle_sleep" =>
          /\ lock = q
          /\ wake[q].den = 1
          /\ wake[q].num = min_delay - (wake[q].start - last_request_ts)
          /\ wake[q].num <= min_delay

\* While one operation is still in a backoff longer than min_delay, the
\* other has sent a request after that backoff began.
C28_Witness ==
    \E o \in Ops, q \in Ops :
        /\ o # q
        /\ pc[o] = "backoff"
        /\ ~Woken(wake[o], now)
        /\ wake[o].num > min_delay * wake[o].den
        /\ \E i \in 1..Len(log) : log[i].op = q /\ log[i].t > wake[o].start

\* ---------------------------------------------------------------- C29
\* An operation that has ended has closed the client it used exactly when
\* that client was a temporary one of its own.
TemporaryClosedOnExit ==
    \A o \in Ops :
        /\ pc[o] # "idle" =>
              /\ should_close[o] => client[o] = TemporaryClient(token)
              /\ ~should_close[o] => client[o] = PersistentClient(token)
        /\ pc[o] = "done" => closed[o] = should_close[o]
        /\ closed[o] => should_close[o] /\ pc[o] = "done"

\* The persistent client goes away in __aexit__ and nowhere else.
PersistentClosedByAExit ==
    http_client # NoClient /\ http_client' = NoClient =>
        ctx = "inside" /\ ctx' = "exited"

\* C29: outside an async context manager the temporary HTTP client of an
\* operation is closed on every exit path of that operation (success, polling
\* exhausted, bad status, transport failure); inside one, _request_xml never
\* closes the persistent client, which only __aexit__ closes.
C29_ClientClosedByItsOwner ==
    []TemporaryClosedOnExit /\ [][PersistentClosedByAExit]_vars

\* One operation ended inside the with-block and left the persistent client
\* open; after __aexit__ another ran on a temporary client, exhausted its
\* polls, and closed it.
C29_Witness ==
    /\ ctx = "exited"
    /\ pc[1] = "done" /\ ~should_close[1] /\ ~closed[1]
    /\ pc[2] = "done" /\ should_close[2] /\ closed[2]
    /\ result[2] = QueuedTooLong

\* ---------------------------------------------------------------- C30
\* get_thing or get_family with an empty id list, or get_plays with neither
\* a username nor both an id and a type.
BadArguments(c) ==
    \/ c.method \in {"get_thing", "get_family"} /\ c.ids = PyList(<<>>)
    \/ /\ c.method = "get_plays"
       /\ c.username \in {PyNone, PyStr("")}
       /\ c.thing_id \in {PyNone, PyInteger(0)} \/ c.thing_type = PyNone

\* An operation called with such arguments has ended in ValueError and has
\* sent nothing.
RejectedSendsNothing ==
    \A o \in Ops : BadArguments(calls[o]) =>
        /\ pc[o] = "done"
        /\ result[o] = ValueErrorRaised
        /\ \A i \in 1..Len(log) : log[i].op # o

\* The call that raises leaves the timestamp, the lock and the log alone.
RejectedLeavesGate ==
    \A o \in Ops : BadArguments(calls'[o]) /\ pc[o] = "idle" =>
        /\ last_request_ts' = last_request_ts
        /\ lock' = lock /\ waiters' = waiters
        /\ log' = log

\* C30: get_thing and get_family called with an empty id list, and get_plays
\* called with neither a username nor both an id and a type, fail with
\* ValueError without issuing any physical attempt and leave the client's
\* last-request timestamp unchanged.
C30_BadArgumentsRejected ==
    []RejectedSendsNothing /\ [][RejectedLeavesGate]_vars

\* get_plays with an id but no type was rejected on a client that had
\* already sent a request for another operation.
C30_Witness ==
    \E o \in Ops :
        /\ calls[o].method = "get_plays"
        /\ calls[o].thing_id = PyInteger(13)
        /\ result[o] = ValueErrorRaised
        /\ last_request_ts > 0
        /\ log # <<>>
====
